---- MODULE Spec2Model ----
(***************************************************************************)
(* svc-gis: the telemetry writers (postgis/aircraft.rs) and the flight     *)
(* writer (postgis/flight.rs) as state machines over the PostGIS tables    *)
(* arrow.aircraft, arrow.flights and arrow.flight_segments.                *)
(*                                                                         *)
(* Every request handler is a process: it runs from one await to the next  *)
(* in one step, and requests interleave at the awaits.  The database is    *)
(* PostgreSQL at READ COMMITTED: a transaction's writes are private until  *)
(* COMMIT, a row written by an open transaction is locked against other    *)
(* writers until that transaction ends, and dropping a transaction that    *)
(* was not committed rolls it back.                                        *)
(***************************************************************************)
EXTENDS Integers, Sequences, FiniteSets, TLC

(***************************************************************************)
(* Bounds of the model.                                                    *)
(***************************************************************************)
\* telemetry records submitted in one behaviour, over all calls; a call
\* with an empty batch counts as one
MaxRecords == 3
\* update_flight_path calls made in one behaviour
MaxFlightCalls == 2
\* length of the identifiers enumerated character by character
MaxIdentLen == 2
\* best_path calls made in one behaviour
MaxRouteCalls == 2
\* init runs made in one behaviour
MaxInits == 3
\* length of the position lists converted on their own
MaxBatchLen == 3

(***************************************************************************)
(* Option<T> and SQL NULL.                                                 *)
(***************************************************************************)
None == <<>>
Some(v) == <<v>>
IsSome(o) == o # <<>>
Unwrap(o) == o[1]

Range(s) == {s[i] : i \in DOMAIN s}

(***************************************************************************)
(* Identifiers are strings, modelled as sequences of characters.           *)
(***************************************************************************)
Digits == {"0", "1", "2", "3", "4", "5", "6", "7", "8", "9"}
Upper == {"A", "B", "C", "D", "E", "F", "G", "H", "I", "J", "K", "L", "M",
          "N", "O", "P", "Q", "R", "S", "T", "U", "V", "W", "X", "Y", "Z"}
Lower == {"a", "b", "c", "d", "e", "f", "g", "h", "i", "j", "k", "l", "m",
          "n", "o", "p", "q", "r", "s", "t", "u", "v", "w", "x", "y", "z"}
\* the character class of IDENTIFIER_REGEX: [\-0-9A-Za-z_\.]
IDENTIFIER_CHARS == Digits \cup Upper \cup Lower \cup {"-", "_", "."}
\* the repetition bounds of IDENTIFIER_REGEX: {1,255}
IDENTIFIER_MIN_LEN == 1
IDENTIFIER_MAX_LEN == 255
\* identifier VARCHAR(20) of arrow.aircraft
IDENTIFIER_COLUMN_LEN == 20

\* a match of IDENTIFIER_REGEX, ^[\-0-9A-Za-z_\.]{1,255}$;
\* FLIGHT_IDENTIFIER_REGEX is the same pattern
MatchesRegex(s) ==
    /\ Len(s) >= IDENTIFIER_MIN_LEN
    /\ Len(s) <= IDENTIFIER_MAX_LEN
    /\ \A i \in 1..Len(s) : s[i] \in IDENTIFIER_CHARS

\* the string the unit test ut_aircraft_request_to_gis_invalid_label expects
\* to be refused although it matches the pattern
IdentNull == <<"N", "U", "L", "L">>

\* utils::check_string(s, regex): s matches the regex and is not the literal
\* NULL
check_string(s) == MatchesRegex(s) /\ s # IdentNull

\* mutant: the repetition bounds of the pattern are not applied
check_identifierAnyLength(s) ==
    /\ \A i \in 1..Len(s) : s[i] \in IDENTIFIER_CHARS
    /\ s # IdentNull

\* check_identifier: utils::check_string(identifier, IDENTIFIER_REGEX)
check_identifier(s) == check_string(s)

(***************************************************************************)
(* Results.                                                                *)
(***************************************************************************)
Ok(v) == [ok |-> TRUE, v |-> v]
Err(e) == [ok |-> FALSE, e |-> e]

\* mutant: the error of the last invalid element
CollectLast(rs) ==
    IF \E i \in DOMAIN rs : ~rs[i].ok
    THEN Err(rs[CHOOSE i \in DOMAIN rs :
                    /\ ~rs[i].ok
                    /\ \A j \in DOMAIN rs : ~rs[j].ok => i >= j].e)
    ELSE Ok([i \in DOMAIN rs |-> rs[i].v])

\* Iterator::collect::<Result<Vec<_>, _>>(): the first error in list order,
\* or all the values
Collect(rs) ==
    IF \E i \in DOMAIN rs : ~rs[i].ok
    THEN Err(rs[CHOOSE i \in DOMAIN rs :
                    /\ ~rs[i].ok
                    /\ \A j \in DOMAIN rs : ~rs[j].ok => i <= j].e)
    ELSE Ok([i \in DOMAIN rs |-> rs[i].v])

(***************************************************************************)
(* Wire records and their domains.                                         *)
(***************************************************************************)
DEFAULT_SRID == 4326

\* num_traits::FromPrimitive::from_i32 for AircraftType: the declared
\* discriminants map to their variant, every other code to None
AircraftTypeCodes == {0, 1, 2}
AircraftTypeName(c) ==
    CASE c = 0 -> "undeclared" [] c = 1 -> "aeroplane" [] c = 2 -> "rotorcraft"
from_i32(code) ==
    IF code \in AircraftTypeCodes THEN Some(AircraftTypeName(code)) ELSE None

\* utils::validate_pointz: latitude in [-90, 90], longitude in [-180, 180]
validate_pointz(p) ==
    /\ p.y >= 0 - 90 /\ p.y <= 90
    /\ p.x >= 0 - 180 /\ p.x <= 180

IdentA == <<"A">>
IdentB == <<"B">>
\* matches IDENTIFIER_REGEX and exceeds VARCHAR(20)
IdentLong == [i \in 1..(IDENTIFIER_COLUMN_LEN + 1) |-> "X"]
\* does not match IDENTIFIER_REGEX
IdentBad == <<"A", ";">>
GoodIdentifiers == {IdentA, IdentB}

GrpcPoint(lat, lon, alt) ==
    [latitude |-> lat, longitude |-> lon, altitude_meters |-> alt]
\* position samples <<point, timestamp_network>>: the later sample carries the
\* earlier timestamp, as a client replaying old telemetry sends it
PosSamples == {<<GrpcPoint(52, 4, 100), 2>>, <<GrpcPoint(53, 5, 50), 1>>}
BadPoint == GrpcPoint(91, 0, 100)

ReqAircraftPos(id, geom, ts) ==
    [identifier |-> id, geom |-> geom, timestamp_network |-> ts]
ReqAircraftId(id, ty, ts) ==
    [identifier |-> id, aircraft_type |-> ty, timestamp_network |-> ts]
ReqAircraftVelocity(id, vh, vv, tr, ts) ==
    [identifier |-> id, velocity_horizontal_ground_mps |-> vh,
     velocity_vertical_mps |-> vv, track_angle_degrees |-> tr,
     timestamp_network |-> ts]

(***************************************************************************)
(* The request adapters.                                                   *)
(***************************************************************************)
\* mutant: the location is looked at before the identifier
AircraftPosition_try_fromLocationFirst(craft) ==
    IF ~IsSome(craft.geom) THEN Err("Location")
    ELSE IF ~check_identifier(craft.identifier) THEN Err("Label")
    ELSE LET geom == [x |-> Unwrap(craft.geom).longitude,
                      y |-> Unwrap(craft.geom).latitude,
                      z |-> Unwrap(craft.geom).altitude_meters,
                      srid |-> Some(DEFAULT_SRID)]
         IN  IF ~validate_pointz(geom) THEN Err("Location")
             ELSE IF ~IsSome(craft.timestamp_network) THEN Err("Time")
             ELSE Ok([identifier |-> craft.identifier,
                      geom |-> geom,
                      timestamp |-> Unwrap(craft.timestamp_network)])

\* mutant: the timestamp is looked at before the location
AircraftPosition_try_fromTimeFirst(craft) ==
    IF ~check_identifier(craft.identifier) THEN Err("Label")
    ELSE IF ~IsSome(craft.timestamp_network) THEN Err("Time")
    ELSE IF ~IsSome(craft.geom) THEN Err("Location")
    ELSE LET geom == [x |-> Unwrap(craft.geom).longitude,
                      y |-> Unwrap(craft.geom).latitude,
                      z |-> Unwrap(craft.geom).altitude_meters,
                      srid |-> Some(DEFAULT_SRID)]
         IN  IF ~validate_pointz(geom) THEN Err("Location")
             ELSE Ok([identifier |-> craft.identifier,
                      geom |-> geom,
                      timestamp |-> Unwrap(craft.timestamp_network)])

\* impl TryFrom<ReqAircraftPos> for AircraftPosition
AircraftPosition_try_from(craft) ==
    IF ~check_identifier(craft.identifier) THEN Err("Label")
    ELSE IF ~IsSome(craft.geom) THEN Err("Location")
    ELSE LET geom == [x |-> Unwrap(craft.geom).longitude,
                      y |-> Unwrap(craft.geom).latitude,
                      z |-> Unwrap(craft.geom).altitude_meters,
                      srid |-> Some(DEFAULT_SRID)]
         IN  IF ~validate_pointz(geom) THEN Err("Location")
             ELSE IF ~IsSome(craft.timestamp_network) THEN Err("Time")
             ELSE Ok([identifier |-> craft.identifier,
                      geom |-> geom,
                      timestamp |-> Unwrap(craft.timestamp_network)])

\* mutant: a code outside the enum is stored as the default type
AircraftId_try_fromDefaultType(craft) ==
    IF ~check_identifier(craft.identifier) THEN Err("Label")
    ELSE IF ~IsSome(craft.timestamp_network) THEN Err("Time")
    ELSE Ok([identifier |-> craft.identifier,
             aircraft_type |-> IF IsSome(from_i32(craft.aircraft_type))
                               THEN Unwrap(from_i32(craft.aircraft_type))
                               ELSE AircraftTypeName(0),
             timestamp |-> Unwrap(craft.timestamp_network)])

\* impl TryFrom<ReqAircraftId> for AircraftId
AircraftId_try_from(craft) ==
    IF ~check_identifier(craft.identifier) THEN Err("Label")
    ELSE IF ~IsSome(from_i32(craft.aircraft_type)) THEN Err("AircraftId")
    ELSE IF ~IsSome(craft.timestamp_network) THEN Err("Time")
    ELSE Ok([identifier |-> craft.identifier,
             aircraft_type |-> Unwrap(from_i32(craft.aircraft_type)),
             timestamp |-> Unwrap(craft.timestamp_network)])

\* impl TryFrom<ReqAircraftVelocity> for AircraftVelocity
AircraftVelocity_try_from(craft) ==
    IF ~check_identifier(craft.identifier) THEN Err("Label")
    ELSE IF ~IsSome(craft.timestamp_network) THEN Err("Time")
    ELSE Ok([identifier |-> craft.identifier,
             velocity_horizontal_ground_mps |->
                 craft.velocity_horizontal_ground_mps,
             velocity_vertical_mps |-> craft.velocity_vertical_mps,
             track_angle_degrees |-> craft.track_angle_degrees,
             timestamp |-> Unwrap(craft.timestamp_network)])

(***************************************************************************)
(* The inputs of the telemetry writers.                                    *)
(***************************************************************************)
Streams == {"id", "position", "velocity"}

PosRecords ==
    {ReqAircraftPos(id, Some(s[1]), Some(s[2])) :
        id \in GoodIdentifiers, s \in PosSamples}
    \cup {ReqAircraftPos(IdentBad, None, None),
          ReqAircraftPos(IdentA, None, None),
          ReqAircraftPos(IdentA, Some(BadPoint), Some(1)),
          ReqAircraftPos(IdentA, Some(GrpcPoint(52, 4, 100)), None),
          ReqAircraftPos(IdentLong, Some(GrpcPoint(52, 4, 100)), Some(1))}

IdRecords ==
    {ReqAircraftId(id, 1, Some(1)) : id \in GoodIdentifiers}
    \cup {ReqAircraftId(IdentBad, 99, None),
          ReqAircraftId(IdentA, 99, None),
          ReqAircraftId(IdentA, 1, None)}

VelRecords ==
    {ReqAircraftVelocity(id, 10, 1, 90, Some(1)) : id \in GoodIdentifiers}
    \cup {ReqAircraftVelocity(IdentBad, 10, 1, 90, None),
          ReqAircraftVelocity(IdentA, 10, 1, 90, None)}

WireRecords(s) ==
    CASE s = "id" -> IdRecords
      [] s = "position" -> PosRecords
      [] s = "velocity" -> VelRecords

\* the batches of at most max records
WireBatches(s, max) == UNION {[1..n -> WireRecords(s)] : n \in 0..max}

\* aircraft.into_iter().map(T::try_from).collect::<Result<Vec<_>, _>>()
ConvertBatch(s, b) ==
    Collect([i \in DOMAIN b |->
        CASE s = "id" -> AircraftId_try_from(b[i])
          [] s = "position" -> AircraftPosition_try_from(b[i])
          [] s = "velocity" -> AircraftVelocity_try_from(b[i])])

\* mutant: the list is converted without the is_empty check
EntryUnchecked(s, b) == ConvertBatch(s, b)

\* what a telemetry writer does before pool.get(): the is_empty check and
\* the conversion; an error is what the call returns at once
Entry(s, b) == IF b = <<>> THEN Err("NoAircraft") ELSE ConvertBatch(s, b)

(***************************************************************************)
(* The inputs of the adapters taken alone.                                 *)
(***************************************************************************)
\* characters of the pattern's class and characters outside it
SampleChars == {"A", "z", "0", "-", "_", ".", "'", "\"", ";", " "}
\* identifiers at the limits of the pattern and of the column
Ident20 == [i \in 1..IDENTIFIER_COLUMN_LEN |-> "X"]
Ident255 == [i \in 1..IDENTIFIER_MAX_LEN |-> "X"]
Ident256 == [i \in 1..(IDENTIFIER_MAX_LEN + 1) |-> "X"]
\* every string of at most MaxIdentLen sample characters, and the long ones
IdentifierSamples ==
    UNION {[1..n -> SampleChars] : n \in 0..MaxIdentLen}
    \cup {IdentNull, Ident20, IdentLong, Ident255, Ident256}
\* the identifiers the records and requests given to the adapters carry
AdapterLabels ==
    {IdentA, <<"a", "-", "_", ".", "9">>, Ident20, IdentLong, Ident255,
     Ident256, <<>>, IdentNull,
     <<"A", "'">>, <<"A", "\"">>, <<"A", ";">>, <<"A", " ">>}
\* the points at, inside and outside the bounds of latitude and longitude
AdapterPoints ==
    {GrpcPoint(lat, lon, 100) :
        lat \in {0 - 91, 0 - 90, 0, 90, 91},
        lon \in {0 - 181, 0 - 180, 0, 180, 181}}
AdapterRecords(s) ==
    CASE s = "id" ->
            {ReqAircraftId(id, ty, ts) :
                id \in AdapterLabels, ty \in {0, 1, 2, 0 - 1, 3, 99},
                ts \in {None, Some(1)}}
      [] s = "position" ->
            {ReqAircraftPos(id, geom, ts) :
                id \in AdapterLabels,
                geom \in {None} \cup {Some(pt) : pt \in AdapterPoints},
                ts \in {None, Some(1)}}
      [] s = "velocity" ->
            {ReqAircraftVelocity(id, 10, 1, 90, ts) :
                id \in AdapterLabels, ts \in {None, Some(1)}}

\* position records that are converted, and records that are refused for
\* their identifier, for their location and for their timestamp
BatchRecords ==
    {ReqAircraftPos(IdentA, Some(GrpcPoint(52, 4, 100)), Some(1)),
     ReqAircraftPos(IdentBad, None, None),
     ReqAircraftPos(IdentA, None, None),
     ReqAircraftPos(IdentA, Some(GrpcPoint(52, 4, 100)), None)}
\* the lists of two records and more
PositionBatches == UNION {[1..n -> BatchRecords] : n \in 2..MaxBatchLen}

\* T::try_from of the writer of stream s
TryFrom(s, craft) ==
    CASE s = "id" -> AircraftId_try_from(craft)
      [] s = "position" -> AircraftPosition_try_from(craft)
      [] s = "velocity" -> AircraftVelocity_try_from(craft)

(***************************************************************************)
(* arrow.aircraft and the three UPSERT statements.  A table is a function  *)
(* from the primary keys present to their rows.                            *)
(***************************************************************************)
\* the row an INSERT naming none of the columns would create: aircraft_type
\* NOT NULL DEFAULT 'undeclared', every other column NULL
AircraftDefaultRow ==
    [aircraft_type |-> "undeclared",
     velocity_horizontal_ground_mps |-> None,
     velocity_vertical_mps |-> None,
     track_angle_degrees |-> None,
     geom |-> None,
     last_identifier_update |-> None,
     last_position_update |-> None,
     last_velocity_update |-> None]

EmptyTable == [k \in {} |-> AircraftDefaultRow]
EmptyFlights == [k \in {} |-> <<>>]

Put(tbl, key, row) ==
    [k \in DOMAIN tbl \cup {key} |-> IF k = key THEN row ELSE tbl[k]]

BaseRow(tbl, key) == IF key \in DOMAIN tbl THEN tbl[key] ELSE AircraftDefaultRow

\* mutant: the statement leaves last_identifier_update out
UpsertIdUnstamped(tbl, craft) ==
    Put(tbl, craft.identifier,
        [BaseRow(tbl, craft.identifier) EXCEPT
            !.aircraft_type = craft.aircraft_type])

\* INSERT INTO arrow.aircraft(identifier, aircraft_type, last_identifier_update)
\* ... ON CONFLICT (identifier) DO UPDATE SET aircraft_type = $2,
\* last_identifier_update = $3
UpsertId(tbl, craft) ==
    Put(tbl, craft.identifier,
        [BaseRow(tbl, craft.identifier) EXCEPT
            !.aircraft_type = craft.aircraft_type,
            !.last_identifier_update = Some(craft.timestamp)])

\* mutant: the conflict branch rewrites the whole row from the INSERT's
\* values, so the columns of the other streams fall back to their defaults
UpsertPositionReplace(tbl, craft) ==
    Put(tbl, craft.identifier,
        [AircraftDefaultRow EXCEPT
            !.geom = Some(craft.geom),
            !.last_position_update = Some(craft.timestamp)])

\* mutant: ON CONFLICT (identifier) DO NOTHING
UpsertPositionKeepFirst(tbl, craft) ==
    IF craft.identifier \in DOMAIN tbl
    THEN tbl
    ELSE Put(tbl, craft.identifier,
             [AircraftDefaultRow EXCEPT
                 !.geom = Some(craft.geom),
                 !.last_position_update = Some(craft.timestamp)])

\* mutant: the hardened variant, DO UPDATE ... WHERE
\* EXCLUDED.last_position_update > aircraft.last_position_update
UpsertPositionGuarded(tbl, craft) ==
    IF /\ craft.identifier \in DOMAIN tbl
       /\ IsSome(tbl[craft.identifier].last_position_update)
       /\ Unwrap(tbl[craft.identifier].last_position_update) >= craft.timestamp
    THEN tbl
    ELSE Put(tbl, craft.identifier,
             [BaseRow(tbl, craft.identifier) EXCEPT
                 !.geom = Some(craft.geom),
                 !.last_position_update = Some(craft.timestamp)])

\* INSERT INTO arrow.aircraft (identifier, geom, last_position_update) ...
\* ON CONFLICT (identifier) DO UPDATE SET geom = $2, last_position_update = $3
UpsertPosition(tbl, craft) ==
    Put(tbl, craft.identifier,
        [BaseRow(tbl, craft.identifier) EXCEPT
            !.geom = Some(craft.geom),
            !.last_position_update = Some(craft.timestamp)])

\* mutant: the conflict branch rewrites the whole row from the INSERT's values
UpsertVelocityReplace(tbl, craft) ==
    Put(tbl, craft.identifier,
        [AircraftDefaultRow EXCEPT
            !.velocity_horizontal_ground_mps =
                Some(craft.velocity_horizontal_ground_mps),
            !.velocity_vertical_mps = Some(craft.velocity_vertical_mps),
            !.track_angle_degrees = Some(craft.track_angle_degrees),
            !.last_velocity_update = Some(craft.timestamp)])

\* INSERT INTO arrow.aircraft (identifier, velocity_horizontal_ground_mps,
\* velocity_vertical_mps, track_angle_degrees, last_velocity_update) ...
\* ON CONFLICT (identifier) DO UPDATE SET the same four columns
UpsertVelocity(tbl, craft) ==
    Put(tbl, craft.identifier,
        [BaseRow(tbl, craft.identifier) EXCEPT
            !.velocity_horizontal_ground_mps =
                Some(craft.velocity_horizontal_ground_mps),
            !.velocity_vertical_mps = Some(craft.velocity_vertical_mps),
            !.track_angle_degrees = Some(craft.track_angle_degrees),
            !.last_velocity_update = Some(craft.timestamp)])

Upsert(s, tbl, craft) ==
    CASE s = "id" -> UpsertId(tbl, craft)
      [] s = "position" -> UpsertPosition(tbl, craft)
      [] s = "velocity" -> UpsertVelocity(tbl, craft)

\* whether the engine can store the record: identifier VARCHAR(20)
Storable(craft) == Len(craft.identifier) <= IDENTIFIER_COLUMN_LEN

\* get_aircraft_pointz: SELECT geom FROM arrow.aircraft WHERE identifier = $1,
\* query_one and try_get::<PointZ>; no row or a NULL geom is DBError
get_aircraft_pointz(tbl, identifier) ==
    IF identifier \in DOMAIN tbl /\ IsSome(tbl[identifier].geom)
    THEN Ok(Unwrap(tbl[identifier].geom))
    ELSE Err("DBError")

(***************************************************************************)
(* Flight paths: geometry, the segmentizer and the rows of arrow.flights   *)
(* and arrow.flight_segments.                                              *)
(***************************************************************************)
MAX_FLIGHT_SEGMENT_LENGTH_METERS == 40

\* check_flight_identifier: utils::check_string(s, FLIGHT_IDENTIFIER_REGEX),
\* the same pattern as IDENTIFIER_REGEX
check_flight_identifier(s) == check_string(s)

\* validate_flight_path
validate_flight_path(item) ==
    IF ~IsSome(item.flight_identifier) THEN Err("Label")
    ELSE IF ~check_flight_identifier(Unwrap(item.flight_identifier))
    THEN Err("Label")
    ELSE Ok(TRUE)

\* PointZ::try_from(GrpcPointZ): the point with x = longitude, y = latitude,
\* z = altitude, refused when validate_pointz refuses it
PointZ_try_from(p) ==
    LET geom == [x |-> p.longitude, y |-> p.latitude,
                 z |-> p.altitude_meters, srid |-> Some(DEFAULT_SRID)]
    IN  IF validate_pointz(geom) THEN Ok(geom) ELSE Err("Location")

LineString(points) == [points |-> points, srid |-> Some(DEFAULT_SRID)]

Abs(n) == IF n < 0 THEN 0 - n ELSE n
Min(S) == CHOOSE m \in S : \A n \in S : m <= n
Max(S) == CHOOSE m \in S : \A n \in S : m >= n

\* the greatest r in lo..hi with r * r <= v, by bisection
RECURSIVE RootBetween(_, _, _)
RootBetween(v, lo, hi) ==
    IF lo >= hi THEN lo
    ELSE LET mid == (lo + hi + 1) \div 2
         IN  IF mid * mid <= v THEN RootBetween(v, mid, hi)
             ELSE RootBetween(v, lo, mid - 1)

\* 3D Euclidean distance in the geometry's units, rounded down
Distance(a, b) ==
    LET v == (b.x - a.x) * (b.x - a.x) + (b.y - a.y) * (b.y - a.y)
             + (b.z - a.z) * (b.z - a.z)
    IN  RootBetween(v, 0, Abs(b.x - a.x) + Abs(b.y - a.y) + Abs(b.z - a.z))

\* ceil(d / max_len): the sub-edges an edge of length d is split into
SubEdgeCount(d, max_len) == (d + max_len - 1) \div max_len

\* linear interpolation from a to b at k / n
Interpolate(a, b, k, n) == a + ((b - a) * k) \div n

\* the k-th of the n + 1 split points of the edge from a to b
SplitPoint(a, b, k, n) ==
    [x |-> Interpolate(a.x, b.x, k, n),
     y |-> Interpolate(a.y, b.y, k, n),
     z |-> Interpolate(a.z, b.z, k, n),
     srid |-> a.srid]

\* cumulative arc length at the start of edge i, and the total
RECURSIVE ArcLength(_, _)
ArcLength(points, i) ==
    IF i <= 1 THEN 0
    ELSE ArcLength(points, i - 1) + Distance(points[i - 1], points[i])

\* the sub-edges of edge i, in order, each with its time window interpolated
\* by cumulative length
EdgeSegments(points, i, t0, t1, max_len) ==
    LET d == Distance(points[i], points[i + 1])
        n == SubEdgeCount(d, max_len)
        total == ArcLength(points, Len(points))
        at(k) == ArcLength(points, i) + (d * k) \div n
        time(k) == t0 + ((t1 - t0) * at(k)) \div total
    IN  [k \in 1..n |->
            [geom |-> LineString(<<SplitPoint(points[i], points[i + 1], k - 1, n),
                                   SplitPoint(points[i], points[i + 1], k, n)>>),
             time_start |-> time(k - 1),
             time_end |-> time(k)]]

RECURSIVE AllSegments(_, _, _, _, _)
AllSegments(points, i, t0, t1, max_len) ==
    IF i >= Len(points) THEN <<>>
    ELSE EdgeSegments(points, i, t0, t1, max_len)
         \o AllSegments(points, i + 1, t0, t1, max_len)

\* utils::segmentize(points, timestamp_start, timestamp_end, max_len)
segmentize(points, t0, t1, max_len) ==
    IF t1 < t0 THEN Err("Time")
    ELSE IF Len(points) < 2 THEN Err("Segments")
    ELSE IF ArcLength(points, Len(points)) = 0 THEN Err("Segments")
    ELSE Ok(AllSegments(points, 1, t0, t1, max_len))

\* ST_Envelope(geom): the bounding box of the path in x and y
ST_Envelope(geom) ==
    IF geom.points = <<>> THEN None
    ELSE Some([min_x |-> Min({geom.points[i].x : i \in DOMAIN geom.points}),
               min_y |-> Min({geom.points[i].y : i \in DOMAIN geom.points}),
               max_x |-> Max({geom.points[i].x : i \in DOMAIN geom.points}),
               max_y |-> Max({geom.points[i].y : i \in DOMAIN geom.points})])

(***************************************************************************)
(* Flight path requests and their domain.                                  *)
(***************************************************************************)
FlightF1 == <<"F", "1">>
FlightF2 == <<"F", "2">>
\* matches FLIGHT_IDENTIFIER_REGEX and exceeds VARCHAR(20)
FlightLong == [i \in 1..(IDENTIFIER_COLUMN_LEN + 1) |-> "F"]

UpdateFlightPathRequest(fid, aid, ty, sim, t0, t1, path) ==
    [flight_identifier |-> fid, aircraft_identifier |-> aid,
     aircraft_type |-> ty, simulated |-> sim,
     timestamp_start |-> t0, timestamp_end |-> t1, path |-> path]

\* a climb above one place: one edge within the maximum segment length, one
\* edge beyond it, and both in a row
PathPoint(alt) == GrpcPoint(52, 4, alt)
PathShort == <<PathPoint(0), PathPoint(30)>>
PathLong == <<PathPoint(0), PathPoint(100)>>
PathBent == <<PathPoint(0), PathPoint(30), PathPoint(100)>>
\* an edge of exactly the maximum segment length, then one just beyond it
PathLimit == <<PathPoint(0), PathPoint(MAX_FLIGHT_SEGMENT_LENGTH_METERS),
               PathPoint(2 * MAX_FLIGHT_SEGMENT_LENGTH_METERS + 1)>>

\* <<timestamp_start, timestamp_end, path>>: every path over one window of a
\* minute, a path over the minute after it, a path over an instant, and a
\* path over a window that ends before it starts.  One flight takes every
\* plan; a second flight, stored beside it, takes one.
FlightPlans == {<<0, 60, PathShort>>, <<0, 60, PathLong>>, <<0, 60, PathBent>>,
                <<60, 120, PathLong>>, <<0, 0, PathLong>>, <<60, 0, PathShort>>}

FlightRequests ==
    {UpdateFlightPathRequest(Some(FlightF1), Some(IdentA), 1, FALSE,
                             Some(p[1]), Some(p[2]), p[3]) : p \in FlightPlans}
    \cup
    {UpdateFlightPathRequest(Some(FlightF2), Some(IdentA), 1, FALSE,
                             Some(0), Some(60), PathLimit)}
    \cup
    {UpdateFlightPathRequest(None, Some(IdentA), 1, FALSE,
                             Some(0), Some(60), PathShort),
     UpdateFlightPathRequest(Some(IdentBad), Some(IdentA), 1, FALSE,
                             Some(0), Some(60), PathShort),
     UpdateFlightPathRequest(Some(FlightF1), Some(IdentA), 1, FALSE,
                             None, Some(60), PathShort),
     UpdateFlightPathRequest(Some(FlightF1), Some(IdentA), 1, FALSE,
                             Some(0), None, PathShort),
     UpdateFlightPathRequest(Some(FlightF1), Some(IdentA), 99, FALSE,
                             Some(0), Some(60), PathShort),
     UpdateFlightPathRequest(Some(FlightF1), Some(IdentA), 1, FALSE,
                             Some(0), Some(60), <<>>),
     UpdateFlightPathRequest(Some(FlightF1), Some(IdentA), 1, FALSE,
                             Some(0), Some(60), <<PathPoint(0)>>),
     UpdateFlightPathRequest(Some(FlightF1), Some(IdentA), 1, FALSE,
                             Some(0), Some(60), <<PathPoint(0), PathPoint(0)>>),
     UpdateFlightPathRequest(Some(FlightF1), Some(IdentA), 1, FALSE,
                             Some(0), Some(60), <<PathPoint(0), BadPoint>>),
     UpdateFlightPathRequest(Some(FlightF1), None, 1, TRUE,
                             Some(0), Some(60), PathShort),
     UpdateFlightPathRequest(Some(FlightLong), Some(IdentA), 1, FALSE,
                             Some(0), Some(60), PathShort)}

\* the requests given to validate_flight_path taken alone
AdapterFlights ==
    FlightRequests
    \cup {UpdateFlightPathRequest(Some(id), Some(IdentA), ty, FALSE,
                                  Some(0), ts, PathShort) :
             id \in AdapterLabels, ty \in {0, 1, 0 - 1, 3, 99},
             ts \in {None, Some(60)}}

\* enum FlightError
FlightErrors == {"AircraftId", "AircraftType", "Location", "Time", "Label",
                 "Client", "DBError", "Segments"}

\* the path of a request as a Vec<PointZ>
PathPoints(flight) ==
    Collect([i \in DOMAIN flight.path |-> PointZ_try_from(flight.path[i])])

\* the values bound to $1..$7 of the flights statement, with isa computed by
\* the statement
FlightValues(flight) ==
    [aircraft_identifier |-> flight.aircraft_identifier,
     aircraft_type |-> Unwrap(from_i32(flight.aircraft_type)),
     simulated |-> flight.simulated,
     geom |-> LineString(PathPoints(flight).v),
     isa |-> ST_Envelope(LineString(PathPoints(flight).v)),
     time_start |-> Unwrap(flight.timestamp_start),
     time_end |-> Unwrap(flight.timestamp_end)]

\* mutant: the conflict branch assigns time_start from EXCLUDED.time_end
UpsertFlightMixed(tbl, key, values) ==
    IF key \in DOMAIN tbl
    THEN Put(tbl, key, [values EXCEPT !.time_start = values.time_end])
    ELSE Put(tbl, key, values)

\* INSERT INTO flights ... ON CONFLICT (flight_identifier) DO UPDATE SET
\* every column = EXCLUDED.column
UpsertFlight(tbl, key, values) ==
    IF key \in DOMAIN tbl
    THEN Put(tbl, key,
             [tbl[key] EXCEPT !.aircraft_identifier = values.aircraft_identifier,
                              !.aircraft_type = values.aircraft_type,
                              !.simulated = values.simulated,
                              !.geom = values.geom,
                              !.isa = values.isa,
                              !.time_start = values.time_start,
                              !.time_end = values.time_end])
    ELSE Put(tbl, key, values)

\* the flights statement can store these values: the identifiers fit
\* VARCHAR(20) and the NOT NULL columns have a value
FlightStorable(flight) ==
    /\ Len(Unwrap(flight.flight_identifier)) <= IDENTIFIER_COLUMN_LEN
    /\ IsSome(flight.aircraft_identifier)
    /\ Len(Unwrap(flight.aircraft_identifier)) <= IDENTIFIER_COLUMN_LEN

\* mutant: $3 and $4 of the segment statement are bound the other way round
SegmentRowSwapped(key, segment) ==
    [flight_identifier |-> key, geom |-> segment.geom,
     time_start |-> segment.time_end, time_end |-> segment.time_start]

\* the row INSERT INTO flight_segments stores for one segment
SegmentRow(key, segment) ==
    [flight_identifier |-> key, geom |-> segment.geom,
     time_start |-> segment.time_start, time_end |-> segment.time_end]

\* mutant: the statement leaves the rows where they are
DeleteSegmentsNone(rows, key) == rows

\* DELETE FROM flight_segments WHERE flight_identifier = $1
DeleteSegments(rows, key) == {s \in rows : s.flight_identifier # key}

\* the rows of one flight
SegmentsOf(rows, key) == {s \in rows : s.flight_identifier = key}

\* PRIMARY KEY (flight_identifier, time_start)
SegmentKeyTaken(rows, row) ==
    \E s \in rows : /\ s.flight_identifier = row.flight_identifier
                    /\ s.time_start = row.time_start

(***************************************************************************)
(* What a batch says about one identifier.                                 *)
(***************************************************************************)
BatchIdentifiers(b) == {b[i].identifier : i \in DOMAIN b}

\* the last record of the batch for this identifier
LastRecord(b, key) ==
    b[CHOOSE i \in DOMAIN b :
        /\ b[i].identifier = key
        /\ \A j \in DOMAIN b : b[j].identifier = key => j <= i]

\* the columns a stream owns, as its record carries them
RecordColumns(s, craft) ==
    CASE s = "id" -> <<craft.aircraft_type, Some(craft.timestamp)>>
      [] s = "position" -> <<Some(craft.geom), Some(craft.timestamp)>>
      [] s = "velocity" -> <<Some(craft.velocity_horizontal_ground_mps),
                             Some(craft.velocity_vertical_mps),
                             Some(craft.track_angle_degrees),
                             Some(craft.timestamp)>>

\* the columns a stream owns, as a row holds them
RowColumns(s, row) ==
    CASE s = "id" -> <<row.aircraft_type, row.last_identifier_update>>
      [] s = "position" -> <<row.geom, row.last_position_update>>
      [] s = "velocity" -> <<row.velocity_horizontal_ground_mps,
                             row.velocity_vertical_mps,
                             row.track_angle_degrees,
                             row.last_velocity_update>>


(***************************************************************************)
(* routing.rs: the request of best_path and its sanitization.  A DateTime  *)
(* is a number of seconds; a wire Timestamp is seconds and nanoseconds.    *)
(***************************************************************************)
Second == 1
Day == 86400 * Second
\* what the clock reads when the service starts
Epoch == 20 * Day

\* enum PathType
PathTypes == {"PortToPort", "AircraftToPort"}
ALTITUDE_HARDCODE == 1000

HexDigits == Digits \cup {"a", "b", "c", "d", "e", "f"}
                    \cup {"A", "B", "C", "D", "E", "F"}
LowerHex(c) ==
    CASE c = "A" -> "a" [] c = "B" -> "b" [] c = "C" -> "c"
      [] c = "D" -> "d" [] c = "E" -> "e" [] c = "F" -> "f"
      [] OTHER -> c
\* the positions of the hyphens in the hyphenated form of a UUID
HyphenAt == {9, 14, 19, 24}
\* Uuid's Display: 32 lower-case hexadecimal digits in groups of 8-4-4-4-12
Uuid_to_string(u) ==
    SubSeq(u, 1, 8) \o <<"-">> \o SubSeq(u, 9, 12) \o <<"-">>
    \o SubSeq(u, 13, 16) \o <<"-">> \o SubSeq(u, 17, 20) \o <<"-">>
    \o SubSeq(u, 21, 32)
\* uuid::Uuid::parse_str for the simple and the hyphenated form, in either
\* case of the digits: the value as 32 lower-case hexadecimal digits
Uuid_parse_str(s) ==
    IF Len(s) = 32 /\ \A i \in 1..32 : s[i] \in HexDigits
    THEN Some([i \in 1..32 |-> LowerHex(s[i])])
    ELSE IF /\ Len(s) = 36
            /\ \A i \in 1..36 :
                  IF i \in HyphenAt THEN s[i] = "-" ELSE s[i] \in HexDigits
    THEN LET digits == SubSeq(s, 1, 8) \o SubSeq(s, 10, 13)
                       \o SubSeq(s, 15, 18) \o SubSeq(s, 20, 23)
                       \o SubSeq(s, 25, 36)
         IN  Some([i \in 1..32 |-> LowerHex(digits[i])])
    ELSE None

Timestamp(seconds, nanos) == [seconds |-> seconds, nanos |-> nanos]
NanosPerSecond == 1000000000
\* lib_common::time::timestamp_to_datetime: None when the nanoseconds are not
\* those of a second
timestamp_to_datetime(ts) ==
    IF ts.nanos >= 0 /\ ts.nanos < NanosPerSecond
    THEN Some(ts.seconds) ELSE None

BestPathRequest(node_uuid_start, node_uuid_end, time_start, time_end) ==
    [node_uuid_start |-> node_uuid_start, node_uuid_end |-> node_uuid_end,
     time_start |-> time_start, time_end |-> time_end]

\* enum PathError
PathErrors == {"NoPath", "InvalidStartNode", "InvalidEndNode",
               "InvalidStartTime", "InvalidEndTime", "InvalidTimeWindow",
               "Client", "Unknown"}

\* mutant: the test of time_end against time_start is left out
sanitizeNoWindow(request, now_start, now_end, now_check) ==
    LET node_uuid_start == Uuid_parse_str(request.node_uuid_start)
        node_uuid_end == Uuid_parse_str(request.node_uuid_end)
    IN
    IF ~IsSome(node_uuid_start) THEN Err("InvalidStartNode")
    ELSE IF ~IsSome(node_uuid_end) THEN Err("InvalidEndNode")
    ELSE IF /\ IsSome(request.time_start)
            /\ ~IsSome(timestamp_to_datetime(Unwrap(request.time_start)))
    THEN Err("InvalidStartTime")
    ELSE IF /\ IsSome(request.time_end)
            /\ ~IsSome(timestamp_to_datetime(Unwrap(request.time_end)))
    THEN Err("InvalidEndTime")
    ELSE
    LET time_start ==
            IF ~IsSome(request.time_start) THEN now_start
            ELSE Unwrap(timestamp_to_datetime(Unwrap(request.time_start)))
        time_end ==
            IF ~IsSome(request.time_end) THEN now_end + Day
            ELSE Unwrap(timestamp_to_datetime(Unwrap(request.time_end)))
    IN
    IF time_end < now_check THEN Err("InvalidEndTime")
    ELSE Ok([node_uuid_start |-> Unwrap(node_uuid_start),
             node_uuid_end |-> Unwrap(node_uuid_end),
             time_start |-> time_start, time_end |-> time_end])

\* mutant: the test of time_end against the clock is left out
sanitizeNoPast(request, now_start, now_end, now_check) ==
    LET node_uuid_start == Uuid_parse_str(request.node_uuid_start)
        node_uuid_end == Uuid_parse_str(request.node_uuid_end)
    IN
    IF ~IsSome(node_uuid_start) THEN Err("InvalidStartNode")
    ELSE IF ~IsSome(node_uuid_end) THEN Err("InvalidEndNode")
    ELSE IF /\ IsSome(request.time_start)
            /\ ~IsSome(timestamp_to_datetime(Unwrap(request.time_start)))
    THEN Err("InvalidStartTime")
    ELSE IF /\ IsSome(request.time_end)
            /\ ~IsSome(timestamp_to_datetime(Unwrap(request.time_end)))
    THEN Err("InvalidEndTime")
    ELSE
    LET time_start ==
            IF ~IsSome(request.time_start) THEN now_start
            ELSE Unwrap(timestamp_to_datetime(Unwrap(request.time_start)))
        time_end ==
            IF ~IsSome(request.time_end) THEN now_end + Day
            ELSE Unwrap(timestamp_to_datetime(Unwrap(request.time_end)))
    IN
    IF time_end < time_start THEN Err("InvalidTimeWindow")
    ELSE Ok([node_uuid_start |-> Unwrap(node_uuid_start),
             node_uuid_end |-> Unwrap(node_uuid_end),
             time_start |-> time_start, time_end |-> time_end])

\* sanitize(request), with what Utc::now() reads where time_start is
\* defaulted, where time_end is defaulted, and where time_end is tested
sanitize(request, now_start, now_end, now_check) ==
    LET node_uuid_start == Uuid_parse_str(request.node_uuid_start)
        node_uuid_end == Uuid_parse_str(request.node_uuid_end)
    IN
    IF ~IsSome(node_uuid_start) THEN Err("InvalidStartNode")
    ELSE IF ~IsSome(node_uuid_end) THEN Err("InvalidEndNode")
    ELSE IF /\ IsSome(request.time_start)
            /\ ~IsSome(timestamp_to_datetime(Unwrap(request.time_start)))
    THEN Err("InvalidStartTime")
    ELSE IF /\ IsSome(request.time_end)
            /\ ~IsSome(timestamp_to_datetime(Unwrap(request.time_end)))
    THEN Err("InvalidEndTime")
    ELSE
    LET time_start ==
            IF ~IsSome(request.time_start) THEN now_start
            ELSE Unwrap(timestamp_to_datetime(Unwrap(request.time_start)))
        time_end ==
            IF ~IsSome(request.time_end) THEN now_end + Day
            ELSE Unwrap(timestamp_to_datetime(Unwrap(request.time_end)))
    IN
    IF time_end < time_start THEN Err("InvalidTimeWindow")
    ELSE IF time_end < now_check THEN Err("InvalidEndTime")
    ELSE Ok([node_uuid_start |-> Unwrap(node_uuid_start),
             node_uuid_end |-> Unwrap(node_uuid_end),
             time_start |-> time_start, time_end |-> time_end])

\* the stored procedure best_path calls for a path type
fn_name(path_type) ==
    CASE path_type = "PortToPort" -> "best_path_p2p"
      [] path_type = "AircraftToPort" -> "best_path_a2p"

\* cmd_str: the procedure and the four arguments formatted into the query
cmd_str(path_type, request) ==
    [fn_name |-> fn_name(path_type),
     node_uuid_start |-> Uuid_to_string(request.node_uuid_start),
     node_uuid_end |-> Uuid_to_string(request.node_uuid_end),
     time_start |-> request.time_start,
     time_end |-> request.time_end]

\* the node strings given to best_path: a hyphenated UUID as to_string()
\* writes it, a simple one in upper case, and strings that are no UUID
UuidPort == Uuid_to_string([i \in 1..32 |-> IF i = 32 THEN "1" ELSE "a"])
UuidSimple == [i \in 1..32 |-> IF i = 32 THEN "2" ELSE "B"]
UuidInvalid == <<"I", "n", "v", "a", "l", "i", "d">>
NodeStrings == {UuidPort, UuidSimple, UuidInvalid}

\* the times a request carries, relative to what the clock reads when the
\* request is made
TimeOffsets == {0 - 10 * Day, 0 - Second, 0, Second, 10 * Day}
\* a Timestamp that timestamp_to_datetime refuses
BadTimestamp(now) == Timestamp(now, 0 - 1)
RequestTimes(now) ==
    {None, Some(BadTimestamp(now))}
    \cup {Some(Timestamp(now + d, 0)) : d \in TimeOffsets}
BestPathRequests(now) ==
    {BestPathRequest(a, b, t0, t1) :
        a \in NodeStrings, b \in NodeStrings,
        t0 \in RequestTimes(now), t1 \in RequestTimes(now)}
\* how far the clock moves between two readings within one call
ClockSteps == {0, Second}
\* what three readings in a row may be, the first one at or after now
ClockReadings(now) ==
    {<<now + d1, now + d1 + d2, now + d1 + d2 + d3>> :
        d1 \in ClockSteps, d2 \in ClockSteps, d3 \in ClockSteps}

\* the rows a stored procedure returns, by their index column
PathRows == {<<>>, <<0>>, <<0, 1>>}
\* the rows as Vec<PathSegment>
PathSegments(rows) ==
    [i \in DOMAIN rows |->
        [index |-> rows[i], altitude_meters |-> ALTITUDE_HARDCODE]]

(***************************************************************************)
(* The queries: get_flights and the flight intersection statement.         *)
(***************************************************************************)
\* the columns of arrow.aircraft that get_flights reads and that no statement
\* of the telemetry writers creates or writes: session_id stays NULL, and
\* simulated and op_status keep a default
AircraftSessionId(row) == None
AircraftSimulated(row) == FALSE
AircraftOpStatus(row) == Some("undeclared")

GetFlightsRequest(min_x, min_y, max_x, max_y, t0, t1) ==
    [window_min_x |-> min_x, window_min_y |-> min_y,
     window_max_x |-> max_x, window_max_y |-> max_y,
     time_start |-> t0, time_end |-> t1]

\* the LineStringT of the two corners of the window, as get_flights binds it
WindowLine(request) ==
    LineString(<<[x |-> request.window_min_x, y |-> request.window_min_y],
                 [x |-> request.window_max_x, y |-> request.window_max_y]>>)

\* ST_Intersects(ST_Envelope($1), point): the point is in the box, its
\* border included; NULL for a NULL point
ST_IntersectsPoint(window, point) ==
    LET box == Unwrap(ST_Envelope(window)) IN
    /\ IsSome(point)
    /\ Unwrap(point).x >= box.min_x /\ Unwrap(point).x <= box.max_x
    /\ Unwrap(point).y >= box.min_y /\ Unwrap(point).y <= box.max_y

\* ST_Intersects(ST_Envelope($1), path) for the paths stored here, which
\* climb above one place: a vertex of the path is in the box
ST_IntersectsPath(window, path) ==
    \E i \in DOMAIN path.points :
        ST_IntersectsPoint(window, Some(path.points[i]))

\* the WHERE clause of the first statement of get_flights, for an aircraft
\* row and for a flights row; a comparison with NULL is not true
AircraftInWindow(row, window, t0, t1) ==
    /\ ST_IntersectsPoint(window, row.geom)
    /\ IsSome(row.last_position_update)
    /\ Unwrap(row.last_position_update) >= t0
    /\ Unwrap(row.last_position_update) <= t1
FlightInWindow(row, window, t0, t1) ==
    /\ ST_IntersectsPath(window, row.geom)
    /\ row.time_end >= t0
    /\ row.time_start <= t1

\* the ON clause of the LEFT JOIN: the flights rows joined to an aircraft row
JoinedFlights(tbl, ftbl, identifier) ==
    {k \in DOMAIN ftbl :
        \/ ftbl[k].aircraft_identifier = Some(identifier)
        \/ Some(k) = AircraftSessionId(tbl[identifier])}

\* a row of the first statement
FlightRow(tbl, identifier, session_id) ==
    [flight_identifier |-> session_id,
     aircraft_identifier |-> Some(identifier),
     aircraft_type |-> tbl[identifier].aircraft_type,
     simulated |-> AircraftSimulated(tbl[identifier])]

\* the rows of the first statement: arrow.aircraft LEFT JOIN arrow.flights,
\* an aircraft row without a flight being joined to NULLs
GetFlightsRows(tbl, ftbl, window, t0, t1) ==
    UNION {
        LET joined == JoinedFlights(tbl, ftbl, identifier) IN
        IF joined = {}
        THEN IF AircraftInWindow(tbl[identifier], window, t0, t1)
             THEN {FlightRow(tbl, identifier, None)}
             ELSE {}
        ELSE {FlightRow(tbl, identifier, Some(k)) :
                 k \in {f \in joined :
                           \/ AircraftInWindow(tbl[identifier], window, t0, t1)
                           \/ FlightInWindow(ftbl[f], window, t0, t1)}}
        : identifier \in DOMAIN tbl}

\* the rows of a result in the orders the engine may return them
Orderings(S) ==
    {f \in [1..Cardinality(S) -> S] :
        \A i \in DOMAIN f : \A j \in DOMAIN f : f[i] = f[j] => i = j}

\* a row of the first statement as a Flight without positions or state
DecodeFlight(row) ==
    [session_id |-> row.flight_identifier,
     aircraft_id |-> row.aircraft_identifier,
     simulated |-> row.simulated,
     positions |-> <<>>,
     state |-> None,
     aircraft_type |-> row.aircraft_type]

\* the second statement: the aircraft rows WHERE session_id = $1 OR
\* identifier = $2, of which LIMIT 1 keeps one
TelemetryRows(tbl, session_id, aircraft_id) ==
    {k \in DOMAIN tbl :
        \/ IsSome(session_id) /\ AircraftSessionId(tbl[k]) = session_id
        \/ IsSome(aircraft_id) /\ k = Unwrap(aircraft_id)}

\* process_row: a NULL in a column read as a plain value is an error
process_row(tbl, identifier, flight) ==
    LET row == tbl[identifier] IN
    IF \/ ~IsSome(row.geom)
       \/ ~IsSome(row.velocity_horizontal_ground_mps)
       \/ ~IsSome(row.velocity_vertical_mps)
       \/ ~IsSome(row.track_angle_degrees)
       \/ ~IsSome(row.last_position_update)
       \/ ~IsSome(AircraftOpStatus(row))
    THEN Err("tokio_postgres")
    ELSE LET position == GrpcPoint(Unwrap(row.geom).y, Unwrap(row.geom).x,
                                   Unwrap(row.geom).z)
         IN  Ok([flight EXCEPT
                   !.session_id = AircraftSessionId(row),
                   !.aircraft_id = Some(identifier),
                   !.positions = Append(flight.positions,
                       [position |-> Some(position),
                        timestamp |-> row.last_position_update]),
                   !.state = Some(
                       [timestamp |-> row.last_position_update,
                        ground_speed_mps |->
                            Unwrap(row.velocity_horizontal_ground_mps),
                        vertical_speed_mps |->
                            Unwrap(row.velocity_vertical_mps),
                        track_angle_degrees |->
                            Unwrap(row.track_angle_degrees),
                        position |-> Some(position),
                        status |-> Unwrap(AircraftOpStatus(row))])])

\* ST_3DDWithin(ST_Transform(a, 4978), ST_Transform(b, 4978), radius) for
\* geometries above one place each: above the same place the distance is
\* the gap between their altitudes, and places a degree or more apart are
\* farther from each other than any radius used here
ST_3DDWithin(a, b, radius) ==
    \E i \in DOMAIN a.points : \E j \in DOMAIN b.points :
        /\ a.points[i].x = b.points[j].x
        /\ a.points[i].y = b.points[j].y
        /\ LET lo_a == Min({a.points[k].z : k \in DOMAIN a.points})
               hi_a == Max({a.points[k].z : k \in DOMAIN a.points})
               lo_b == Min({b.points[k].z : k \in DOMAIN b.points})
               hi_b == Max({b.points[k].z : k \in DOMAIN b.points})
           IN  /\ lo_b - hi_a <= radius
               /\ lo_a - hi_b <= radius

\* the CTE of the intersection statement: the segments that overlap the
\* time window and are within the radius of the geometry
IntersectingSegments(rows, geom, radius, t0, t1) ==
    {seg \in rows :
        /\ seg.time_start <= t1
        /\ seg.time_end >= t0
        /\ ST_3DDWithin(seg.geom, geom, radius)}

\* mutant: simulated flights are selected as well
FlightIntersectionsSimulated(ftbl, rows, geom, radius, t0, t1) ==
    {k \in DOMAIN ftbl :
        \E seg \in IntersectingSegments(rows, geom, radius, t0, t1) :
            seg.flight_identifier = k}

\* the flights the statement selects before LIMIT 1
FlightIntersections(ftbl, rows, geom, radius, t0, t1) ==
    {k \in DOMAIN ftbl :
        /\ \E seg \in IntersectingSegments(rows, geom, radius, t0, t1) :
              seg.flight_identifier = k
        /\ ftbl[k].simulated = FALSE}

\* the results the statement may give: LIMIT 1 keeps one of the flights
\* selected, whichever the engine comes to first
FlightIntersectionResults(ftbl, rows, geom, radius, t0, t1) ==
    LET selected == FlightIntersections(ftbl, rows, geom, radius, t0, t1) IN
    IF selected = {} THEN {<<>>}
    ELSE {<<[flight_identifier |-> k,
             aircraft_identifier |-> ftbl[k].aircraft_identifier,
             geom |-> ftbl[k].geom,
             time_start |-> ftbl[k].time_start,
             time_end |-> ftbl[k].time_end]>> : k \in selected}

(***************************************************************************)
(* The stored states the queries are asked about: what the statements of   *)
(* the writers leave after some calls that committed.                      *)
(***************************************************************************)
\* the telemetry an aircraft has sent: none, an identity, a position, both a
\* position and a velocity, or all three
TelemetrySent(id) ==
    LET i == <<"id", AircraftId_try_from(ReqAircraftId(id, 1, Some(1))).v>>
        p == <<"position", AircraftPosition_try_from(
                 ReqAircraftPos(id, Some(GrpcPoint(52, 4, 100)), Some(2))).v>>
        v == <<"velocity", AircraftVelocity_try_from(
                 ReqAircraftVelocity(id, 10, 1, 90, Some(1))).v>>
    IN  {<<>>, <<i>>, <<p>>, <<p, v>>, <<i, p, v>>}

RECURSIVE UpsertAll(_, _)
UpsertAll(tbl, records) ==
    IF records = <<>> THEN tbl
    ELSE UpsertAll(Upsert(records[1][1], tbl, records[1][2]), Tail(records))

StoredAircraft ==
    {UpsertAll(UpsertAll(EmptyTable, a), b) :
        a \in TelemetrySent(IdentA), b \in {<<>>} \cup
            {<<<<"position", AircraftPosition_try_from(
                 ReqAircraftPos(IdentB, Some(GrpcPoint(53, 5, 50)),
                                Some(1))).v>>>>}}

\* the flights stored: none, a short flight of aircraft A that may be
\* simulated, and a long flight of aircraft B
StoredFlightRequests ==
    {{}} \cup
    {{UpdateFlightPathRequest(Some(FlightF1), Some(IdentA), 1, sim,
                              Some(0), Some(60), PathShort)} \cup rest :
        sim \in BOOLEAN,
        rest \in {{}, {UpdateFlightPathRequest(Some(FlightF2), Some(IdentB), 1,
                           FALSE, Some(0), Some(60), PathLong)}}}
    \cup {{UpdateFlightPathRequest(Some(FlightF2), Some(IdentB), 1,
                           FALSE, Some(0), Some(60), PathLong)}}

\* arrow.flights and arrow.flight_segments after update_flight_path has
\* committed each of the requests
FlightsOf(requests) ==
    [k \in {Unwrap(f.flight_identifier) : f \in requests} |->
        FlightValues(CHOOSE f \in requests : Unwrap(f.flight_identifier) = k)]
SegmentRowsOf(requests) ==
    UNION {
        LET segments == segmentize(PathPoints(f).v,
                                   Unwrap(f.timestamp_start),
                                   Unwrap(f.timestamp_end),
                                   MAX_FLIGHT_SEGMENT_LENGTH_METERS).v
        IN  {SegmentRow(Unwrap(f.flight_identifier), segments[i]) :
                i \in DOMAIN segments}
        : f \in requests}

\* the requests given to get_flights: windows around aircraft A, around both
\* aircraft, with its corners the other way round, and away from both; time
\* intervals that hold the stored times, that touch them and that miss them
Windows == {<<3, 51, 4, 52>>, <<0, 50, 10, 60>>, <<4, 52, 3, 51>>,
            <<10, 10, 11, 11>>}
Intervals == {<<Some(0), Some(60)>>, <<Some(60), Some(120)>>,
              <<Some(61), Some(120)>>, <<None, Some(60)>>, <<Some(0), None>>}
GetFlightsRequests ==
    {GetFlightsRequest(w[1], w[2], w[3], w[4], t[1], t[2]) :
        w \in Windows, t \in Intervals}

\* the parameters given to the intersection statement: a point above the
\* place of the flights or above another place, a radius, a time window
IntersectionParameters ==
    {[geom |-> LineString(<<[x |-> pt[1], y |-> pt[2], z |-> pt[3]]>>),
      radius |-> r, time_start |-> t[1], time_end |-> t[2]] :
        pt \in {<<4, 52, 0>>, <<4, 52, 100>>, <<4, 52, 200>>, <<5, 53, 0>>},
        r \in {10, 50}, t \in {<<0, 10>>, <<0, 60>>, <<61, 120>>}}

(***************************************************************************)
(* State.                                                                  *)
(***************************************************************************)
VARIABLES
    aircraft,   \* arrow.aircraft as committed
    pc,         \* per telemetry request: idle, open, exec, done
    stream,     \* per telemetry request: the writer called
    batch,      \* per telemetry request: the validated records
    idx,        \* per telemetry request: the next record of the loop
    pending,    \* per telemetry request: rows written by its open transaction
    result,     \* per telemetry request: what the call returned
    submitted,  \* telemetry records submitted so far
    lastCommitted,  \* history: per identifier and stream, the columns of the
                    \* last record a committed batch of that stream carried
    prevPositionUpdate, \* history: per identifier, last_position_update as it
                        \* was before the latest committed position batch
    overlapped, \* history: per telemetry request, whether another request
                \* was in flight when its call began
    tlog,       \* history: per telemetry request, whether its call was given
                \* an empty list, whether it was given a session by the pool
                \* and a transaction by the session, and the step it failed at
    flights,          \* arrow.flights as committed
    flight_segments,  \* arrow.flight_segments as committed
    fpc,        \* per flight request: idle, open, upsert, delete, insert, done
    freq,       \* per flight request: the request it carries
    fsegments,  \* per flight request: the segments of its path
    fidx,       \* per flight request: the next segment of the loop
    ftx,        \* per flight request: what its open transaction has written
    fresult,    \* per flight request: what the call returned
    fcalls,     \* update_flight_path calls made so far
    foverlapped, \* history: per flight request, whether another request was
                 \* in flight when its call began
    flog,       \* history: per flight request, whether its call was given a
                \* session by the pool and a transaction by the session, and
                \* the step it failed at
    adapter,    \* the adapter last applied on its own
    wire,       \* what it was given
    converted,  \* what it returned
    returned,   \* what the writer called with that one input does before
                \* it asks for a session: return an error, or go on
    clock,      \* what Utc::now() reads
    route,      \* the best_path call in progress: where it is, what it was
                \* given, what the clock read, and what it has done so far
    rcalls,     \* best_path calls made so far
    reader,     \* the get_flights call in progress: where it is, what it was
                \* given, the flights its first statement matched, the next
                \* one to look up, the result so far, and what it returned
    probe,      \* the intersection statement last run: with what, and what
                \* it gave
    schema,     \* the objects of the database schema as committed
    setup,      \* the init run in progress: the psql_init it is in, the next
                \* statement, what its open transaction has created, the
                \* schema as the run found it, and what it returned
    inits       \* init runs made so far

tvars == <<aircraft, pc, stream, batch, idx, pending, result, submitted,
           lastCommitted, prevPositionUpdate, overlapped, tlog>>
fvars == <<flights, flight_segments, fpc, freq, fsegments, fidx, ftx, fresult,
           fcalls, foverlapped, flog>>
avars == <<adapter, wire, converted, returned>>
rvars == <<clock, route, rcalls>>
qvars == <<reader, probe>>
svars == <<schema, setup, inits>>
\* the state the writers and the adapters leave alone
xvars == <<rvars, qvars, svars>>
vars == <<tvars, fvars, avars, xvars>>

\* the request handler tasks that run concurrently
Req == {"r1", "r2"}
\* a request slot that carries no request
NoRequest == <<>>
\* a transaction that has written nothing: the flights rows it wrote, the
\* flight_segments rows it deleted and the ones it inserted
NoWrites == [flights |-> EmptyFlights, deleted |-> {}, inserted |-> {}]
\* a call that has neither a session nor a transaction and has not failed
NoLog == [empty |-> FALSE, session |-> FALSE, transaction |-> FALSE,
          failed |-> "none"]

\* no best_path call in progress
NoRoute ==
    [pc |-> "idle", path_type |-> "PortToPort",
     request |-> BestPathRequest(<<>>, <<>>, None, None),
     called |-> 0, now |-> <<0, 0, 0>>, sanitized |-> Err("none"),
     session |-> FALSE, queries |-> <<>>, result |-> Err("none")]

\* no get_flights call in progress, and no intersection statement run
NoReader ==
    [pc |-> "idle", request |-> GetFlightsRequest(0, 0, 0, 0, None, None),
     flights |-> <<>>, idx |-> 0, result |-> <<>>, returned |-> Err("none"),
     failed |-> "none", skipped |-> 0]
NoProbe ==
    [pc |-> "idle",
     parameters |-> [geom |-> LineString(<<>>), radius |-> 0,
                     time_start |-> 0, time_end |-> 0],
     returned |-> Err("none")]

\* the objects the two psql_init create: the enum type, the three tables
\* and the two GIST indexes
EnumType == "aircrafttype"
AircraftTable == "arrow.aircraft"
FlightsTable == "arrow.flights"
SegmentsTable == "arrow.flight_segments"
FlightsIndex == "flights_geom_idx"
SegmentsIndex == "flight_segments_geom_idx"
SchemaObjects ==
    {EnumType, AircraftTable, FlightsTable, SegmentsTable, FlightsIndex,
     SegmentsIndex}
\* a statement of a psql_init: the object it creates if it does not exist,
\* and the objects it names, which have to exist
Statement(creates, needs) == [creates |-> creates, needs |-> needs]
\* the statements of aircraft::psql_init, in order: the enum declaration and
\* the aircraft table, whose aircraft_type column is of the enum type
AircraftStatements ==
    <<Statement(EnumType, {}),
      Statement(AircraftTable, {EnumType})>>
\* the statements of flight::psql_init, in order: the two tables and the two
\* indexes; the enum type is not declared here, it has to exist
FlightStatements ==
    <<Statement(FlightsTable, {EnumType}),
      Statement(SegmentsTable, {}),
      Statement(FlightsIndex, {FlightsTable}),
      Statement(SegmentsIndex, {SegmentsTable})>>
Statements(module) ==
    IF module = "aircraft" THEN AircraftStatements ELSE FlightStatements
\* no init run is in progress
NoSetup ==
    [pc |-> "idle", module |-> "none", idx |-> 0, created |-> {},
     found |-> {}, failed |-> "none", returned |-> Err("none")]

\* no call has been made
InitCalls ==
    /\ pc = [r \in Req |-> "idle"]
    /\ stream = [r \in Req |-> "none"]
    /\ batch = [r \in Req |-> <<>>]
    /\ idx = [r \in Req |-> 0]
    /\ pending = [r \in Req |-> EmptyTable]
    /\ result = [r \in Req |-> "none"]
    /\ submitted = 0
    /\ lastCommitted = [k \in GoodIdentifiers |-> [s \in Streams |-> None]]
    /\ prevPositionUpdate = [k \in GoodIdentifiers |-> None]
    /\ overlapped = [r \in Req |-> FALSE]
    /\ tlog = [r \in Req |-> NoLog]
    /\ fpc = [r \in Req |-> "idle"]
    /\ freq = [r \in Req |-> NoRequest]
    /\ fsegments = [r \in Req |-> <<>>]
    /\ fidx = [r \in Req |-> 0]
    /\ ftx = [r \in Req |-> NoWrites]
    /\ fresult = [r \in Req |-> "none"]
    /\ fcalls = 0
    /\ foverlapped = [r \in Req |-> FALSE]
    /\ flog = [r \in Req |-> NoLog]
    /\ adapter = "none"
    /\ wire = [identifier |-> <<>>]
    /\ converted = Err("none")
    /\ returned = Err("none")
    /\ clock = Epoch
    /\ route = NoRoute
    /\ rcalls = 0
    /\ reader = NoReader
    /\ probe = NoProbe
    /\ setup = NoSetup
    /\ inits = 0

\* the tables as psql_init creates them, and no call made
Init ==
    /\ aircraft = EmptyTable
    /\ flights = EmptyFlights
    /\ flight_segments = {}
    /\ schema = SchemaObjects
    /\ InitCalls

\* a database in which init has never run
InitSchema ==
    /\ aircraft = EmptyTable
    /\ flights = EmptyFlights
    /\ flight_segments = {}
    /\ schema = {}
    /\ InitCalls

\* the tables as earlier calls of the writers have left them, and no call
\* in progress
InitQuery ==
    /\ aircraft \in StoredAircraft
    /\ \E requests \in StoredFlightRequests :
          /\ flights = FlightsOf(requests)
          /\ flight_segments = SegmentRowsOf(requests)
    /\ schema = SchemaObjects
    /\ InitCalls

\* what the statements of request r's transaction read: its own writes over
\* the committed rows
View(r) ==
    [k \in DOMAIN aircraft \cup DOMAIN pending[r] |->
        IF k \in DOMAIN pending[r] THEN pending[r][k] ELSE aircraft[k]]

\* the row of this key is written by another open transaction
LockedByOther(r, key) == \E o \in Req \ {r} : key \in DOMAIN pending[o]

\* the call returns res: its records and its transaction are dropped (a
\* transaction dropped without COMMIT rolls back)
Finish(r, res) ==
    /\ pc' = [pc EXCEPT ![r] = "done"]
    /\ result' = [result EXCEPT ![r] = res]
    /\ batch' = [batch EXCEPT ![r] = <<>>]
    /\ pending' = [pending EXCEPT ![r] = EmptyTable]

(***************************************************************************)
(* update_aircraft_id, update_aircraft_position, update_aircraft_velocity. *)
(***************************************************************************)
\* entry: the empty check and the conversion of the batch
Start(r) ==
    /\ pc[r] \in {"idle", "done"}
    /\ submitted < MaxRecords
    /\ overlapped' = [overlapped EXCEPT ![r] =
                         \E o \in Req \ {r} : pc[o] \in {"open", "exec"}]
    /\ \E s \in Streams : \E b \in WireBatches(s, MaxRecords - submitted) :
        LET entry == Entry(s, b) IN
        /\ submitted' = submitted + (IF b = <<>> THEN 1 ELSE Len(b))
        /\ stream' = [stream EXCEPT ![r] = s]
        /\ idx' = [idx EXCEPT ![r] = 0]
        /\ IF ~entry.ok
           THEN /\ Finish(r, entry.e)
                /\ tlog' = [tlog EXCEPT ![r] =
                      [NoLog EXCEPT !.empty = (b = <<>>),
                                    !.failed = IF entry.e = "NoAircraft"
                                               THEN "is_empty"
                                               ELSE "try_from"]]
           ELSE /\ pc' = [pc EXCEPT ![r] = "open"]
                /\ batch' = [batch EXCEPT ![r] = entry.v]
                /\ result' = [result EXCEPT ![r] = "none"]
                /\ tlog' = [tlog EXCEPT ![r] =
                      [NoLog EXCEPT !.empty = (b = <<>>)]]
                /\ UNCHANGED pending
    /\ UNCHANGED <<aircraft, lastCommitted, prevPositionUpdate>>
    /\ UNCHANGED <<fvars, avars, xvars>>

\* pool.get(), client.transaction(), transaction.prepare_cached()
Open(r) ==
    /\ pc[r] = "open"
    /\ \/ /\ Finish(r, "Client")                  \* pool.get() fails
          /\ tlog' = [tlog EXCEPT ![r].failed = "pool.get"]
          /\ UNCHANGED idx
       \/ /\ Finish(r, "DBError")                 \* client.transaction() fails
          /\ tlog' = [tlog EXCEPT ![r].session = TRUE,
                                  ![r].failed = "transaction"]
          /\ UNCHANGED idx
       \/ /\ Finish(r, "DBError")                 \* prepare_cached() fails
          /\ tlog' = [tlog EXCEPT ![r].session = TRUE,
                                  ![r].transaction = TRUE,
                                  ![r].failed = "prepare_cached"]
          /\ UNCHANGED idx
       \/ /\ pc' = [pc EXCEPT ![r] = "exec"]
          /\ idx' = [idx EXCEPT ![r] = 1]
          /\ tlog' = [tlog EXCEPT ![r].session = TRUE,
                                  ![r].transaction = TRUE]
          /\ UNCHANGED <<batch, pending, result>>
    /\ UNCHANGED <<aircraft, stream, submitted,
                 lastCommitted, prevPositionUpdate, overlapped>>
    /\ UNCHANGED <<fvars, avars, xvars>>

\* one transaction.execute(&stmt, ...) of the loop, succeeding
Execute(r) ==
    /\ pc[r] = "exec"
    /\ idx[r] <= Len(batch[r])
    /\ LET craft == batch[r][idx[r]] IN
        /\ Storable(craft)
        /\ ~LockedByOther(r, craft.identifier)
        /\ pending' = [pending EXCEPT ![r] =
              Put(pending[r], craft.identifier,
                  Upsert(stream[r], View(r), craft)[craft.identifier])]
    /\ idx' = [idx EXCEPT ![r] = idx[r] + 1]
    /\ UNCHANGED <<aircraft, pc, stream, batch, result, submitted,
                 lastCommitted, prevPositionUpdate, overlapped, tlog>>
    /\ UNCHANGED <<fvars, avars, xvars>>

\* mutant: the error ends the loop and what was executed is committed
ExecuteFailPartial(r) ==
    /\ pc[r] = "exec"
    /\ idx[r] <= Len(batch[r])
    /\ aircraft' = View(r)
    /\ Finish(r, "DBError")
    /\ tlog' = [tlog EXCEPT ![r].failed = "execute"]
    /\ UNCHANGED <<stream, idx, submitted,
                 lastCommitted, prevPositionUpdate, overlapped>>
    /\ UNCHANGED <<fvars, avars, xvars>>

\* one transaction.execute(&stmt, ...) of the loop, failing: the ? returns
ExecuteFail(r) ==
    /\ pc[r] = "exec"
    /\ idx[r] <= Len(batch[r])
    /\ Finish(r, "DBError")
    /\ tlog' = [tlog EXCEPT ![r].failed = "execute"]
    /\ UNCHANGED <<aircraft, stream, idx, submitted,
                 lastCommitted, prevPositionUpdate, overlapped>>
    /\ UNCHANGED <<fvars, avars, xvars>>

\* transaction.commit() succeeding
Commit(r) ==
    /\ pc[r] = "exec"
    /\ idx[r] = Len(batch[r]) + 1
    /\ aircraft' = View(r)
    /\ Finish(r, "Ok")
    /\ lastCommitted' =
          [k \in GoodIdentifiers |->
              IF k \in BatchIdentifiers(batch[r])
              THEN [lastCommitted[k] EXCEPT ![stream[r]] =
                       Some(RecordColumns(stream[r], LastRecord(batch[r], k)))]
              ELSE lastCommitted[k]]
    /\ prevPositionUpdate' =
          [k \in GoodIdentifiers |->
              IF stream[r] = "position" /\ k \in BatchIdentifiers(batch[r])
              THEN BaseRow(aircraft, k).last_position_update
              ELSE prevPositionUpdate[k]]
    /\ UNCHANGED <<stream, idx, submitted, overlapped, tlog>>
    /\ UNCHANGED <<fvars, avars, xvars>>

\* transaction.commit() failing
CommitFail(r) ==
    /\ pc[r] = "exec"
    /\ idx[r] = Len(batch[r]) + 1
    /\ Finish(r, "DBError")
    /\ tlog' = [tlog EXCEPT ![r].failed = "commit"]
    /\ UNCHANGED <<aircraft, stream, idx, submitted,
                 lastCommitted, prevPositionUpdate, overlapped>>
    /\ UNCHANGED <<fvars, avars, xvars>>

Next ==
    \E r \in Req :
        \/ Start(r)
        \/ Open(r)
        \/ Execute(r)
        \/ ExecuteFail(r)
        \/ Commit(r)
        \/ CommitFail(r)

Spec == Init /\ [][Next]_vars

(***************************************************************************)
(* update_flight_path.                                                     *)
(***************************************************************************)
\* what the statements of request r's transaction read in flights and in
\* flight_segments: its own writes over the committed rows
FlightView(r) ==
    [k \in DOMAIN flights \cup DOMAIN ftx[r].flights |->
        IF k \in DOMAIN ftx[r].flights THEN ftx[r].flights[k] ELSE flights[k]]

SegmentView(r) == (flight_segments \ ftx[r].deleted) \cup ftx[r].inserted

\* mutant: the flights statement does not wait for the row of another
\* open transaction
FlightLockedByOtherNever(r, key) == FALSE

\* the flights row of this key is written by another open transaction
FlightLockedByOther(r, key) ==
    \E o \in Req \ {r} : key \in DOMAIN ftx[o].flights

\* the call returns res: its transaction is dropped (a transaction dropped
\* without COMMIT rolls back)
FlightFinish(r, res) ==
    /\ fpc' = [fpc EXCEPT ![r] = "done"]
    /\ fresult' = [fresult EXCEPT ![r] = res]
    /\ ftx' = [ftx EXCEPT ![r] = NoWrites]

\* what update_flight_path does before it asks for the pool:
\* validate_flight_path, the two timestamps and the aircraft type; an error
\* is what the call returns at once, with the check that failed
FlightEntry(flight) ==
    IF ~validate_flight_path(flight).ok
    THEN [ok |-> FALSE, e |-> validate_flight_path(flight).e,
          step |-> "validate_flight_path"]
    ELSE IF ~IsSome(flight.timestamp_start)
    THEN [ok |-> FALSE, e |-> "Time", step |-> "timestamp_start"]
    ELSE IF ~IsSome(flight.timestamp_end)
    THEN [ok |-> FALSE, e |-> "Time", step |-> "timestamp_end"]
    ELSE IF ~IsSome(from_i32(flight.aircraft_type))
    THEN [ok |-> FALSE, e |-> "AircraftType", step |-> "aircraft_type"]
    ELSE [ok |-> TRUE, e |-> "none", step |-> "none"]

\* entry: validate_flight_path, the timestamps and the aircraft type
FlightStart(r) ==
    /\ fpc[r] \in {"idle", "done"}
    /\ fcalls < MaxFlightCalls
    /\ fcalls' = fcalls + 1
    /\ foverlapped' = [foverlapped EXCEPT ![r] =
                          \E o \in Req \ {r} : fpc[o] \notin {"idle", "done"}]
    /\ \E flight \in FlightRequests :
        LET entry == FlightEntry(flight) IN
        /\ freq' = [freq EXCEPT ![r] = flight]
        /\ IF ~entry.ok
           THEN /\ FlightFinish(r, entry.e)
                /\ flog' = [flog EXCEPT ![r] =
                      [NoLog EXCEPT !.failed = entry.step]]
           ELSE /\ fpc' = [fpc EXCEPT ![r] = "open"]
                /\ fresult' = [fresult EXCEPT ![r] = "none"]
                /\ flog' = [flog EXCEPT ![r] = NoLog]
                /\ UNCHANGED ftx
    /\ fsegments' = [fsegments EXCEPT ![r] = <<>>]
    /\ fidx' = [fidx EXCEPT ![r] = 0]
    /\ UNCHANGED <<flights, flight_segments>>
    /\ UNCHANGED <<tvars, avars, xvars>>

\* mutant: segmentize is called with twice the maximum segment length
FlightOpenWide(r) ==
    /\ fpc[r] = "open"
    /\ \/ /\ FlightFinish(r, "DBError")       \* DEADPOOL_POSTGIS.get() is None
          /\ flog' = [flog EXCEPT ![r].failed = "DEADPOOL_POSTGIS.get"]
          /\ UNCHANGED fsegments
       \/ /\ FlightFinish(r, "Client")        \* pool.get() fails
          /\ flog' = [flog EXCEPT ![r].failed = "pool.get"]
          /\ UNCHANGED fsegments
       \/ /\ FlightFinish(r, "Client")        \* client.transaction() fails
          /\ flog' = [flog EXCEPT ![r].session = TRUE,
                                  ![r].failed = "transaction"]
          /\ UNCHANGED fsegments
       \/ LET points == PathPoints(freq[r])
              opened == [flog EXCEPT ![r].session = TRUE,
                                     ![r].transaction = TRUE]
          IN
          IF ~points.ok
          THEN /\ FlightFinish(r, "Location")
               /\ flog' = [opened EXCEPT ![r].failed = "PointZ::try_from"]
               /\ UNCHANGED fsegments
          ELSE LET segments ==
                       segmentize(points.v,
                                  Unwrap(freq[r].timestamp_start),
                                  Unwrap(freq[r].timestamp_end),
                                  2 * MAX_FLIGHT_SEGMENT_LENGTH_METERS)
               IN  IF ~segments.ok
                   THEN /\ FlightFinish(r, "Segments")
                        /\ flog' = [opened EXCEPT ![r].failed = "segmentize"]
                        /\ UNCHANGED fsegments
                   ELSE /\ fpc' = [fpc EXCEPT ![r] = "upsert"]
                        /\ fsegments' = [fsegments EXCEPT ![r] = segments.v]
                        /\ flog' = opened
                        /\ UNCHANGED <<ftx, fresult>>
    /\ UNCHANGED <<flights, flight_segments, freq, fidx, fcalls, foverlapped>>
    /\ UNCHANGED <<tvars, avars, xvars>>

\* DEADPOOL_POSTGIS.get(), pool.get(), client.transaction(), then the path
\* as points and segmentize
FlightOpen(r) ==
    /\ fpc[r] = "open"
    /\ \/ /\ FlightFinish(r, "DBError")       \* DEADPOOL_POSTGIS.get() is None
          /\ flog' = [flog EXCEPT ![r].failed = "DEADPOOL_POSTGIS.get"]
          /\ UNCHANGED fsegments
       \/ /\ FlightFinish(r, "Client")        \* pool.get() fails
          /\ flog' = [flog EXCEPT ![r].failed = "pool.get"]
          /\ UNCHANGED fsegments
       \/ /\ FlightFinish(r, "Client")        \* client.transaction() fails
          /\ flog' = [flog EXCEPT ![r].session = TRUE,
                                  ![r].failed = "transaction"]
          /\ UNCHANGED fsegments
       \/ LET points == PathPoints(freq[r])
              opened == [flog EXCEPT ![r].session = TRUE,
                                     ![r].transaction = TRUE]
          IN
          IF ~points.ok
          THEN /\ FlightFinish(r, "Location")
               /\ flog' = [opened EXCEPT ![r].failed = "PointZ::try_from"]
               /\ UNCHANGED fsegments
          ELSE LET segments ==
                       segmentize(points.v,
                                  Unwrap(freq[r].timestamp_start),
                                  Unwrap(freq[r].timestamp_end),
                                  MAX_FLIGHT_SEGMENT_LENGTH_METERS)
               IN  IF ~segments.ok
                   THEN /\ FlightFinish(r, "Segments")
                        /\ flog' = [opened EXCEPT ![r].failed = "segmentize"]
                        /\ UNCHANGED fsegments
                   ELSE /\ fpc' = [fpc EXCEPT ![r] = "upsert"]
                        /\ fsegments' = [fsegments EXCEPT ![r] = segments.v]
                        /\ flog' = opened
                        /\ UNCHANGED <<ftx, fresult>>
    /\ UNCHANGED <<flights, flight_segments, freq, fidx, fcalls, foverlapped>>
    /\ UNCHANGED <<tvars, avars, xvars>>

\* transaction.execute(&flights_insertion_stmt, ...) succeeding
FlightUpsert(r) ==
    /\ fpc[r] = "upsert"
    /\ FlightStorable(freq[r])
    /\ LET key == Unwrap(freq[r].flight_identifier) IN
        /\ ~FlightLockedByOther(r, key)
        /\ ftx' = [ftx EXCEPT ![r].flights =
              Put(ftx[r].flights, key,
                  UpsertFlight(FlightView(r), key, FlightValues(freq[r]))[key])]
    /\ fpc' = [fpc EXCEPT ![r] = "delete"]
    /\ UNCHANGED <<flights, flight_segments, freq, fsegments, fidx, fresult,
                 fcalls, foverlapped, flog>>
    /\ UNCHANGED <<tvars, avars, xvars>>

\* transaction.execute(&segments_deletion_stmt, ...) succeeding
FlightDelete(r) ==
    /\ fpc[r] = "delete"
    /\ LET key == Unwrap(freq[r].flight_identifier)
           remaining == DeleteSegments(SegmentView(r), key)
       IN  ftx' = [ftx EXCEPT
                     ![r].deleted = ftx[r].deleted \cup (flight_segments \ remaining),
                     ![r].inserted = ftx[r].inserted \cap remaining]
    /\ fpc' = [fpc EXCEPT ![r] = "insert"]
    /\ fidx' = [fidx EXCEPT ![r] = 1]
    /\ UNCHANGED <<flights, flight_segments, freq, fsegments, fresult,
                 fcalls, foverlapped, flog>>
    /\ UNCHANGED <<tvars, avars, xvars>>

\* one transaction.execute(&segment_insertion_stmt, ...) of the loop,
\* succeeding
FlightInsert(r) ==
    /\ fpc[r] = "insert"
    /\ fidx[r] <= Len(fsegments[r])
    /\ LET row == SegmentRow(Unwrap(freq[r].flight_identifier),
                             fsegments[r][fidx[r]])
       IN  /\ ~SegmentKeyTaken(SegmentView(r), row)
           /\ ftx' = [ftx EXCEPT ![r].inserted = ftx[r].inserted \cup {row}]
    /\ fidx' = [fidx EXCEPT ![r] = fidx[r] + 1]
    /\ UNCHANGED <<flights, flight_segments, fpc, freq, fsegments, fresult,
                 fcalls, foverlapped, flog>>
    /\ UNCHANGED <<tvars, avars, xvars>>

\* mutant: the error ends the call and what was executed is committed
FlightExecuteFailPartial(r) ==
    /\ \/ fpc[r] \in {"upsert", "delete"}
       \/ fpc[r] = "insert" /\ fidx[r] <= Len(fsegments[r])
    /\ flights' = FlightView(r)
    /\ flight_segments' = SegmentView(r)
    /\ FlightFinish(r, "DBError")
    /\ flog' = [flog EXCEPT ![r].failed = "execute"]
    /\ UNCHANGED <<freq, fsegments, fidx, fcalls, foverlapped>>
    /\ UNCHANGED <<tvars, avars, xvars>>

\* a transaction.execute(...) failing, at the flights statement, at the
\* deletion or at a segment of the loop: the ? returns
FlightExecuteFail(r) ==
    /\ \/ fpc[r] \in {"upsert", "delete"}
       \/ fpc[r] = "insert" /\ fidx[r] <= Len(fsegments[r])
    /\ FlightFinish(r, "DBError")
    /\ flog' = [flog EXCEPT ![r].failed = "execute"]
    /\ UNCHANGED <<flights, flight_segments, freq, fsegments, fidx,
                 fcalls, foverlapped>>
    /\ UNCHANGED <<tvars, avars, xvars>>

\* transaction.commit() succeeding
FlightCommit(r) ==
    /\ fpc[r] = "insert"
    /\ fidx[r] = Len(fsegments[r]) + 1
    /\ flights' = FlightView(r)
    /\ flight_segments' = SegmentView(r)
    /\ FlightFinish(r, "Ok")
    /\ UNCHANGED <<freq, fsegments, fidx, fcalls, foverlapped, flog>>
    /\ UNCHANGED <<tvars, avars, xvars>>

\* transaction.commit() failing
FlightCommitFail(r) ==
    /\ fpc[r] = "insert"
    /\ fidx[r] = Len(fsegments[r]) + 1
    /\ FlightFinish(r, "DBError")
    /\ flog' = [flog EXCEPT ![r].failed = "commit"]
    /\ UNCHANGED <<flights, flight_segments, freq, fsegments, fidx,
                 fcalls, foverlapped>>
    /\ UNCHANGED <<tvars, avars, xvars>>

NextFlight ==
    \E r \in Req :
        \/ FlightStart(r)
        \/ FlightOpen(r)
        \/ FlightUpsert(r)
        \/ FlightDelete(r)
        \/ FlightInsert(r)
        \/ FlightExecuteFail(r)
        \/ FlightCommit(r)
        \/ FlightCommitFail(r)

SpecFlight == Init /\ [][NextFlight]_vars

(***************************************************************************)
(* The adapters taken alone: check_identifier, the three try_from and      *)
(* validate_flight_path, each applied to one input.                        *)
(***************************************************************************)
\* check_identifier(identifier)
CheckIdentifier ==
    /\ \E s \in IdentifierSamples :
          /\ wire' = [identifier |-> s]
          /\ converted' = (IF check_identifier(s)
                           THEN Ok([identifier |-> s])
                           ELSE Err("StringError"))
    /\ adapter' = "check_identifier"
    /\ returned' = converted'
    /\ UNCHANGED <<tvars, fvars, xvars>>

\* T::try_from(craft), and the writer of stream s called with vec![craft]
Convert(s) ==
    /\ \E craft \in AdapterRecords(s) :
          /\ wire' = craft
          /\ converted' = TryFrom(s, craft)
          /\ returned' = Entry(s, <<craft>>)
    /\ adapter' = s
    /\ UNCHANGED <<tvars, fvars, xvars>>

\* validate_flight_path(&flight), whose success lets the request go on as it
\* is, and update_flight_path called with that request up to the point
\* where it asks for the pool
ValidateFlight ==
    /\ \E flight \in AdapterFlights :
          /\ wire' = flight
          /\ converted' = (IF validate_flight_path(flight).ok THEN Ok(flight)
                           ELSE validate_flight_path(flight))
          /\ returned' = (IF FlightEntry(flight).ok THEN Ok(flight)
                          ELSE Err(FlightEntry(flight).e))
    /\ adapter' = "flight"
    /\ UNCHANGED <<tvars, fvars, xvars>>

\* update_aircraft_position called with a list of several records, up to
\* the point where it asks the pool for a session
ConvertPositions ==
    /\ \E aircraft_list \in PositionBatches :
          /\ wire' = [identifier |-> <<>>, aircraft |-> aircraft_list]
          /\ converted' = ConvertBatch("position", aircraft_list)
          /\ returned' = Entry("position", aircraft_list)
    /\ adapter' = "positions"
    /\ UNCHANGED <<tvars, fvars, xvars>>

NextAdapter ==
    \/ CheckIdentifier
    \/ \E s \in Streams : Convert(s)
    \/ ValidateFlight
    \/ ConvertPositions

SpecAdapter == Init /\ [][NextAdapter]_vars

(***************************************************************************)
(* best_path.                                                              *)
(***************************************************************************)
\* mutant: the pool is asked for a session before the request is sanitized
BestPathStartSessionFirst ==
    /\ route.pc = "idle"
    /\ rcalls < MaxRouteCalls
    /\ rcalls' = rcalls + 1
    /\ \E path_type \in PathTypes : \E request \in BestPathRequests(clock) :
       \E now \in ClockReadings(clock) :
       LET sanitized == sanitize(request, now[1], now[2], now[3]) IN
       /\ clock' = now[3]
       /\ route' = [pc |-> IF sanitized.ok THEN "query" ELSE "done",
                    path_type |-> path_type, request |-> request,
                    called |-> clock, now |-> now, sanitized |-> sanitized,
                    session |-> TRUE, queries |-> <<>>,
                    result |-> IF sanitized.ok THEN Err("none")
                               ELSE sanitized]
    /\ UNCHANGED <<tvars, fvars, avars, qvars, svars>>

\* entry: sanitize(request)?; the clock is read up to three times on the way
BestPathStart ==
    /\ route.pc = "idle"
    /\ rcalls < MaxRouteCalls
    /\ rcalls' = rcalls + 1
    /\ \E path_type \in PathTypes : \E request \in BestPathRequests(clock) :
       \E now \in ClockReadings(clock) :
       LET sanitized == sanitize(request, now[1], now[2], now[3]) IN
       /\ clock' = now[3]
       /\ route' = [pc |-> IF sanitized.ok THEN "get" ELSE "done",
                    path_type |-> path_type, request |-> request,
                    called |-> clock, now |-> now, sanitized |-> sanitized,
                    session |-> FALSE, queries |-> <<>>,
                    result |-> IF sanitized.ok THEN Err("none")
                               ELSE sanitized]
    /\ UNCHANGED <<tvars, fvars, avars, qvars, svars>>

\* pool.get(): a session, or Client
BestPathGet ==
    /\ route.pc = "get"
    /\ \/ route' = [route EXCEPT !.pc = "done", !.result = Err("Client")]
       \/ route' = [route EXCEPT !.pc = "query", !.session = TRUE]
    /\ UNCHANGED <<clock, rcalls>>
    /\ UNCHANGED <<tvars, fvars, avars, qvars, svars>>

\* client.query(&cmd_str): Unknown, or the rows as path segments
BestPathQuery ==
    /\ route.pc = "query"
    /\ LET cmd == cmd_str(route.path_type, route.sanitized.v) IN
       \/ route' = [route EXCEPT !.pc = "done",
                                 !.queries = Append(route.queries, cmd),
                                 !.result = Err("Unknown")]
       \/ \E rows \in PathRows :
             route' = [route EXCEPT !.pc = "done",
                                   !.queries = Append(route.queries, cmd),
                                   !.result = Ok(PathSegments(rows))]
    /\ UNCHANGED <<clock, rcalls>>
    /\ UNCHANGED <<tvars, fvars, avars, qvars, svars>>

\* the caller has the result; the next call may come
BestPathReturn ==
    /\ route.pc = "done"
    /\ route' = NoRoute
    /\ UNCHANGED <<clock, rcalls>>
    /\ UNCHANGED <<tvars, fvars, avars, qvars, svars>>

NextRoute ==
    \/ BestPathStart
    \/ BestPathGet
    \/ BestPathQuery
    \/ BestPathReturn

SpecRoute == Init /\ [][NextRoute]_vars

(***************************************************************************)
(* get_flights and the flight intersection statement.                      *)
(***************************************************************************)
\* the call returns this error from this step
GetFlightsFail(request, e, step) ==
    reader' = [NoReader EXCEPT !.pc = "done", !.request = request,
                               !.returned = Err(e), !.failed = step]

\* entry: the two times, the pool, the session, and the first statement
\* prepared, run and decoded.  The queries write nothing, so one is followed
\* at a time.
GetFlightsStart ==
    /\ reader.pc = "idle"
    /\ probe.pc = "idle"
    /\ \E request \in GetFlightsRequests :
          IF ~IsSome(request.time_start)
          THEN GetFlightsFail(request, "Time", "time_start")
          ELSE IF ~IsSome(request.time_end)
          THEN GetFlightsFail(request, "Time", "time_end")
          ELSE
             \/ GetFlightsFail(request, "Client", "DEADPOOL_POSTGIS.get")
             \/ GetFlightsFail(request, "Client", "pool.get")
             \/ GetFlightsFail(request, "DBError", "prepare_cached")
             \/ GetFlightsFail(request, "DBError", "query")
             \/ \E rows \in Orderings(
                       GetFlightsRows(aircraft, flights, WindowLine(request),
                                      Unwrap(request.time_start),
                                      Unwrap(request.time_end))) :
                   reader' = [NoReader EXCEPT
                                 !.pc = "prepare", !.request = request,
                                 !.flights = [i \in DOMAIN rows |->
                                                 DecodeFlight(rows[i])]]
    /\ UNCHANGED probe
    /\ UNCHANGED <<tvars, fvars, avars, rvars, svars>>

\* the second statement is prepared, or the call returns DBError
GetFlightsPrepare ==
    /\ reader.pc = "prepare"
    /\ \/ reader' = [reader EXCEPT !.pc = "done", !.returned = Err("DBError"),
                                   !.failed = "prepare_cached telemetry"]
       \/ reader' = [reader EXCEPT !.pc = "loop", !.idx = 1]
    /\ UNCHANGED probe
    /\ UNCHANGED <<tvars, fvars, avars, rvars, svars>>

\* mutant: a telemetry query that fails ends the call with DBError
GetFlightsLookupFailing ==
    /\ reader.pc = "loop"
    /\ reader.idx <= Len(reader.flights)
    /\ LET flight == reader.flights[reader.idx] IN
       \/ reader' = [reader EXCEPT !.pc = "done",
                                   !.returned = Err("DBError"),
                                   !.failed = "query telemetry"]
       \/ \E rows \in
             LET found == TelemetryRows(aircraft, flight.session_id,
                                        flight.aircraft_id)
             IN  IF found = {} THEN {<<>>} ELSE {<<k>> : k \in found} :
             LET entries == [i \in DOMAIN rows |->
                                process_row(aircraft, rows[i], flight)]
             IN  reader' = [reader EXCEPT
                    !.idx = reader.idx + 1,
                    !.result = reader.result \o
                        [i \in {j \in DOMAIN rows : entries[j].ok} |->
                            entries[i].v]]
    /\ UNCHANGED probe
    /\ UNCHANGED <<tvars, fvars, avars, rvars, svars>>

\* one turn of the loop: the telemetry of the next flight is queried; a
\* query that fails and a row that does not decode leave the flight out
GetFlightsLookup ==
    /\ reader.pc = "loop"
    /\ reader.idx <= Len(reader.flights)
    /\ LET flight == reader.flights[reader.idx] IN
       \/ reader' = [reader EXCEPT !.idx = reader.idx + 1,
                                   !.skipped = reader.skipped + 1]
       \/ \E rows \in
             LET found == TelemetryRows(aircraft, flight.session_id,
                                        flight.aircraft_id)
             IN  IF found = {} THEN {<<>>} ELSE {<<k>> : k \in found} :
             LET entries == [i \in DOMAIN rows |->
                                process_row(aircraft, rows[i], flight)]
             IN  reader' = [reader EXCEPT
                    !.idx = reader.idx + 1,
                    !.result = reader.result \o
                        [i \in {j \in DOMAIN rows : entries[j].ok} |->
                            entries[i].v]]
    /\ UNCHANGED probe
    /\ UNCHANGED <<tvars, fvars, avars, rvars, svars>>

\* the loop is over: Ok(result)
GetFlightsReturn ==
    /\ reader.pc = "loop"
    /\ reader.idx > Len(reader.flights)
    /\ reader' = [reader EXCEPT !.pc = "done",
                                !.returned = Ok(reader.result)]
    /\ UNCHANGED probe
    /\ UNCHANGED <<tvars, fvars, avars, rvars, svars>>

\* the caller has the result; the next call may come
GetFlightsDone ==
    /\ reader.pc = "done"
    /\ reader' = NoReader
    /\ UNCHANGED probe
    /\ UNCHANGED <<tvars, fvars, avars, rvars, svars>>

\* get_flight_intersection_stmt, and the statement run by its caller with
\* a geometry, a radius and a time window
GetFlightIntersection ==
    /\ probe.pc = "idle"
    /\ reader.pc = "idle"
    /\ \E parameters \in IntersectionParameters :
          \/ probe' = [pc |-> "done", parameters |-> parameters,
                       returned |-> Err("DBError")]
          \/ \E rows \in FlightIntersectionResults(
                    flights, flight_segments, parameters.geom,
                    parameters.radius, parameters.time_start,
                    parameters.time_end) :
                probe' = [pc |-> "done", parameters |-> parameters,
                          returned |-> Ok(rows)]
    /\ UNCHANGED reader
    /\ UNCHANGED <<tvars, fvars, avars, rvars, svars>>

\* the caller has the rows; the statement may be run again
IntersectionDone ==
    /\ probe.pc = "done"
    /\ probe' = NoProbe
    /\ UNCHANGED reader
    /\ UNCHANGED <<tvars, fvars, avars, rvars, svars>>

NextQuery ==
    \/ GetFlightsStart
    \/ GetFlightsPrepare
    \/ GetFlightsLookup
    \/ GetFlightsReturn
    \/ GetFlightsDone
    \/ GetFlightIntersection
    \/ IntersectionDone

SpecQuery == InitQuery /\ [][NextQuery]_vars

(***************************************************************************)
(* The schema: psql_init of aircraft.rs, then psql_init of flight.rs, each *)
(* handing its statements to psql_transaction.                             *)
(***************************************************************************)
\* the transaction of the psql_init in progress ends without a commit: what
\* it created is dropped, and init returns the error
SchemaFail(step) ==
    setup' = [setup EXCEPT !.pc = "done", !.created = {}, !.failed = step,
                           !.returned = Err("PostgisError")]

\* init is called: aircraft::psql_init builds its statements and hands them
\* to psql_transaction, which asks the pool for a session and opens a
\* transaction
SchemaStart ==
    /\ setup.pc = "idle"
    /\ inits < MaxInits
    /\ inits' = inits + 1
    /\ LET run == [NoSetup EXCEPT !.module = "aircraft", !.found = schema]
       IN  \/ setup' = [run EXCEPT !.pc = "done", !.failed = "pool.get",
                                   !.returned = Err("PostgisError")]
           \/ setup' = [run EXCEPT !.pc = "done", !.failed = "transaction",
                                   !.returned = Err("PostgisError")]
           \/ setup' = [run EXCEPT !.pc = "exec", !.idx = 1]
    /\ UNCHANGED schema
    /\ UNCHANGED <<tvars, fvars, avars, rvars, qvars>>

\* the next statement of the transaction: it fails when an object it names
\* does not exist, it may fail for a reason of the database, and otherwise
\* it creates its object unless the object exists
SchemaExecute ==
    /\ setup.pc = "exec"
    /\ setup.idx <= Len(Statements(setup.module))
    /\ LET statement == Statements(setup.module)[setup.idx]
           visible == schema \cup setup.created
       IN  \/ SchemaFail("execute")
           \/ /\ statement.needs \subseteq visible
              /\ setup' = [setup EXCEPT
                    !.idx = setup.idx + 1,
                    !.created = IF statement.creates \in visible
                                THEN setup.created
                                ELSE setup.created \cup {statement.creates}]
    /\ UNCHANGED <<schema, inits>>
    /\ UNCHANGED <<tvars, fvars, avars, rvars, qvars>>

\* the commit of the transaction of aircraft::psql_init: what it created
\* becomes visible, and flight::psql_init is next, with a transaction of its
\* own, unless no session or no transaction is to be had
SchemaNext ==
    /\ setup.pc = "exec"
    /\ setup.module = "aircraft"
    /\ setup.idx > Len(Statements(setup.module))
    /\ \/ SchemaFail("commit") /\ UNCHANGED schema
       \/ /\ schema' = schema \cup setup.created
          /\ \/ setup' = [setup EXCEPT !.pc = "done", !.created = {},
                                       !.failed = "pool.get flight",
                                       !.returned = Err("PostgisError")]
             \/ setup' = [setup EXCEPT !.module = "flight", !.idx = 1,
                                       !.created = {}]
    /\ UNCHANGED inits
    /\ UNCHANGED <<tvars, fvars, avars, rvars, qvars>>

\* the commit of the transaction of flight::psql_init: Ok(())
SchemaCommit ==
    /\ setup.pc = "exec"
    /\ setup.module = "flight"
    /\ setup.idx > Len(Statements(setup.module))
    /\ \/ SchemaFail("commit flight") /\ UNCHANGED schema
       \/ /\ schema' = schema \cup setup.created
          /\ setup' = [setup EXCEPT !.pc = "done", !.created = {},
                                    !.returned = Ok("unit")]
    /\ UNCHANGED inits
    /\ UNCHANGED <<tvars, fvars, avars, rvars, qvars>>

\* init has returned
SchemaDone ==
    /\ setup.pc = "done"
    /\ setup' = NoSetup
    /\ UNCHANGED <<schema, inits>>
    /\ UNCHANGED <<tvars, fvars, avars, rvars, qvars>>

NextSchema ==
    \/ SchemaStart
    \/ SchemaExecute
    \/ SchemaNext
    \/ SchemaCommit
    \/ SchemaDone

SpecSchema == InitSchema /\ [][NextSchema]_vars

(***************************************************************************)
(* Properties of the telemetry writers.                                    *)
(***************************************************************************)
\* a step in which the call of request r returns from inside its transaction
Returns(r) == pc[r] = "exec" /\ pc'[r] = "done"
\* a step in which the transaction of request r commits
Commits(r) == Returns(r) /\ result'[r] = "Ok"

\* C1: a batch is all or nothing.  A call that returns Ok has made the effect
\* of every record visible (every identifier of the batch has a row whose
\* stream columns are those of its last record); a call that fails after
\* executing some rows returns DBError and leaves arrow.aircraft as it was;
\* and arrow.aircraft changes in no other step.
C1_BatchAllOrNothing ==
    [][/\ \A r \in Req :
            /\ Commits(r) =>
                 \A k \in BatchIdentifiers(batch[r]) :
                    /\ k \in DOMAIN aircraft'
                    /\ RowColumns(stream[r], aircraft'[k]) =
                         RecordColumns(stream[r], LastRecord(batch[r], k))
            /\ (Returns(r) /\ ~Commits(r)) =>
                 /\ result'[r] = "DBError"
                 /\ aircraft' = aircraft
       /\ aircraft' # aircraft => \E r \in Req : Commits(r)]_vars

\* C1 witness: a call has failed with DBError after executing at least one
\* row of its batch
C1_Witness ==
    \E r \in Req : pc[r] = "done" /\ result[r] = "DBError" /\ idx[r] >= 2

\* C2: a committed update of one stream changes, in rows that existed, only
\* the columns of that stream; rows of identifiers not in the batch are
\* unchanged and no row disappears.
C2_FrameEffect ==
    [][\A r \in Req : Commits(r) =>
          \A k \in DOMAIN aircraft :
             /\ k \in DOMAIN aircraft'
             /\ \A s \in Streams \ {stream[r]} :
                   RowColumns(s, aircraft'[k]) = RowColumns(s, aircraft[k])
             /\ k \notin BatchIdentifiers(batch[r]) =>
                   aircraft'[k] = aircraft[k]]_vars

\* C2 witness: two rows exist and one of them has been written by two
\* streams, so a commit found that row existing and another row beside it
C2_Witness ==
    /\ Cardinality(DOMAIN aircraft) = 2
    /\ \E k \in DOMAIN aircraft :
          Cardinality({s \in Streams :
              RowColumns(s, aircraft[k]) # RowColumns(s, AircraftDefaultRow)}) = 2

\* what get_aircraft_pointz and the other streams' timestamps show right
\* after a position batch commits, for the record geom expected of key k
PositionVisible(k, geom) ==
    /\ get_aircraft_pointz(aircraft', k) = Ok(geom)
    /\ aircraft'[k].last_velocity_update =
          BaseRow(aircraft, k).last_velocity_update
    /\ aircraft'[k].last_identifier_update =
          BaseRow(aircraft, k).last_identifier_update

\* C3 as claimed: right after update_aircraft_position commits, for every
\* record p of the batch get_aircraft_pointz(p.identifier) returns p.geom and
\* the other two timestamps of that row are unchanged.
C3_EveryRecordVisible ==
    [][\A r \in Req : (Commits(r) /\ stream[r] = "position") =>
          \A i \in DOMAIN batch[r] :
             PositionVisible(batch[r][i].identifier, batch[r][i].geom)]_vars

\* C3 amended: right after update_aircraft_position commits, for every
\* identifier of the batch get_aircraft_pointz returns the geom of the LAST
\* record the batch holds for it, and last_velocity_update and
\* last_identifier_update of that row are what they were just before the
\* commit.
C3_LastRecordVisible ==
    [][\A r \in Req : (Commits(r) /\ stream[r] = "position") =>
          \A k \in BatchIdentifiers(batch[r]) :
             PositionVisible(k, LastRecord(batch[r], k).geom)]_vars

\* C3 witness: the only call made so far was a position batch of two records
\* for one identifier, and it has committed
C3_Witness ==
    \E r \in Req :
        /\ submitted = 2 /\ pc[r] = "done" /\ result[r] = "Ok"
        /\ stream[r] = "position" /\ idx[r] = 3
        /\ Cardinality(DOMAIN aircraft) = 1

\* C4: in every reachable state each row holds, for each stream, the columns
\* of the last record a committed batch of that stream carried for it (the
\* defaults when no batch of that stream has committed): no stream's commit
\* overwrites another stream's columns, whatever the interleaving.
C4_PerStreamLastWriter ==
    \A k \in DOMAIN aircraft : \A s \in Streams :
        RowColumns(s, aircraft[k]) =
            IF IsSome(lastCommitted[k][s])
            THEN Unwrap(lastCommitted[k][s])
            ELSE RowColumns(s, AircraftDefaultRow)

\* C4 witness: a position call and a velocity call that overlapped have both
\* committed and one row carries the columns of both
C4_Witness ==
    \E r \in Req : \E o \in Req \ {r} : \E k \in DOMAIN aircraft :
        /\ pc[r] = "done" /\ result[r] = "Ok" /\ stream[r] = "position"
        /\ pc[o] = "done" /\ result[o] = "Ok" /\ stream[o] = "velocity"
        /\ overlapped[r] \/ overlapped[o]
        /\ IsSome(lastCommitted[k]["position"])
        /\ IsSome(lastCommitted[k]["velocity"])

\* C5: a committed position batch stores, for each of its identifiers, the
\* geom and the timestamp of its last record, whatever timestamp the row held
\* before: the stored last_position_update is never compared and may decrease.
C5_LastWriterWins ==
    [][\A r \in Req : (Commits(r) /\ stream[r] = "position") =>
          \A k \in BatchIdentifiers(batch[r]) :
             /\ aircraft'[k].geom = Some(LastRecord(batch[r], k).geom)
             /\ aircraft'[k].last_position_update =
                   Some(LastRecord(batch[r], k).timestamp)]_vars

\* C5 witness: two overlapping position calls have committed and the later
\* commit lowered last_position_update of a row
C5_Witness ==
    \E r \in Req : \E o \in Req \ {r} : \E k \in DOMAIN aircraft :
        /\ pc[r] = "done" /\ result[r] = "Ok" /\ stream[r] = "position"
        /\ pc[o] = "done" /\ result[o] = "Ok" /\ stream[o] = "position"
        /\ overlapped[r] \/ overlapped[o]
        /\ IsSome(prevPositionUpdate[k])
        /\ Unwrap(prevPositionUpdate[k]) >
              Unwrap(aircraft[k].last_position_update)

(***************************************************************************)
(* Properties of update_flight_path.                                       *)
(***************************************************************************)
\* a step in which the call of request r returns
FlightReturns(r) == fpc[r] \in {"open", "upsert", "delete", "insert"}
                    /\ fpc'[r] = "done"

\* a step in which the call of request r commits and returns Ok
FlightCommits(r) == FlightReturns(r) /\ fresult'[r] = "Ok"

\* the flight_segments rows a flights row stands for: the segments of its
\* geom over its time window
RowSegments(key, row) ==
    LET segments == segmentize(row.geom.points, row.time_start, row.time_end,
                               MAX_FLIGHT_SEGMENT_LENGTH_METERS)
    IN  IF segments.ok
        THEN {SegmentRow(key, segments.v[i]) : i \in DOMAIN segments.v}
        ELSE {}

\* the rows request r submits: one per segment of its path
SubmittedRows(r) ==
    {SegmentRow(Unwrap(freq[r].flight_identifier), fsegments[r][i]) :
        i \in DOMAIN fsegments[r]}

\* C6: in every state a reader can see, each flight is whole: a flights row
\* is stored together with exactly the segments of that row's path and time
\* window, and no segment is stored without its flights row; this holds
\* while writers of the same flight overlap, so a reader sees the old row
\* with the old segments or the new row with the new segments, never a
\* mixture.
C6_FlightWhole ==
    /\ \A key \in DOMAIN flights :
          SegmentsOf(flight_segments, key) = RowSegments(key, flights[key])
    /\ \A s \in flight_segments : s.flight_identifier \in DOMAIN flights

\* two overlapping calls for the same flight with different payloads have
\* both committed
C6_Witness ==
    \E r \in Req : \E o \in Req \ {r} :
        /\ fpc[r] = "done" /\ fresult[r] = "Ok"
        /\ fpc[o] = "done" /\ fresult[o] = "Ok"
        /\ foverlapped[r]
        /\ freq[r].flight_identifier = freq[o].flight_identifier
        /\ freq[r] # freq[o]
        /\ flights[Unwrap(freq[r].flight_identifier)] = FlightValues(freq[r])
        /\ Cardinality(flight_segments) >= 2

\* C7: when update_flight_path for a flight commits, the stored segments of
\* that flight are exactly the segments of the submitted path, and the
\* segments of every other flight are as they were.
C7_SegmentsReplaced ==
    [][\A r \in Req :
          FlightCommits(r) =>
              LET key == Unwrap(freq[r].flight_identifier) IN
              /\ SegmentsOf(flight_segments', key) = SubmittedRows(r)
              /\ \A s \in flight_segments \cup flight_segments' :
                    s.flight_identifier # key =>
                        (s \in flight_segments <=> s \in flight_segments')
      ]_vars

\* a second submission for a flight has replaced the segments of the first,
\* none of which were among its own, next to another flight's segments
C7_Witness ==
    \E r \in Req : \E o \in Req \ {r} :
        /\ fpc[r] = "done" /\ fresult[r] = "Ok"
        /\ fpc[o] = "done" /\ fresult[o] = "Ok"
        /\ ~foverlapped[r] /\ ~foverlapped[o]
        /\ freq[r].flight_identifier = freq[o].flight_identifier
        /\ LET key == Unwrap(freq[r].flight_identifier) IN
            /\ flights[key] = FlightValues(freq[r])
            /\ SegmentsOf(flight_segments, key) = SubmittedRows(r)
            /\ SubmittedRows(o) # {}
            /\ SubmittedRows(o) \cap SubmittedRows(r) = {}

\* C8: a call of update_flight_path returns Ok only from a commit after
\* every statement ran; every other return is an error of FlightError and
\* leaves flights and flight_segments as they are; and the tables change in
\* no step but a commit that returns Ok.
C8_FailureChangesNothing ==
    [][/\ \A r \in Req :
             FlightReturns(r) =>
                 \/ /\ fresult'[r] = "Ok"
                    /\ fpc[r] = "insert"
                    /\ fidx[r] = Len(fsegments[r]) + 1
                 \/ /\ fresult'[r] \in FlightErrors
                    /\ flights' = flights
                    /\ flight_segments' = flight_segments
       /\ (flights' # flights \/ flight_segments' # flight_segments)
              => \E r \in Req : FlightCommits(r)
      ]_vars

\* a call that was to replace a stored flight failed after it had inserted
\* a segment, and the stored flight is not what it submitted
C8_Witness ==
    \E r \in Req :
        /\ fpc[r] = "done" /\ fresult[r] = "DBError"
        /\ fidx[r] >= 2
        /\ Unwrap(freq[r].flight_identifier) \in DOMAIN flights
        /\ flights[Unwrap(freq[r].flight_identifier)] # FlightValues(freq[r])

\* C9: when the stored row of a flight is what a call submits, with the
\* segments of that payload, the commit of the call leaves flights and
\* flight_segments as they are.
C9_ResubmissionIdempotent ==
    [][\A r \in Req :
          LET key == Unwrap(freq[r].flight_identifier) IN
          (/\ FlightCommits(r)
           /\ key \in DOMAIN flights
           /\ flights[key] = FlightValues(freq[r])
           /\ SegmentsOf(flight_segments, key) = SubmittedRows(r))
              => /\ flights' = flights
                 /\ flight_segments' = flight_segments
      ]_vars

\* the same payload, with a time window that is not an instant, was
\* submitted twice and committed twice
C9_Witness ==
    \E r \in Req : \E o \in Req \ {r} :
        /\ fpc[r] = "done" /\ fresult[r] = "Ok"
        /\ fpc[o] = "done" /\ fresult[o] = "Ok"
        /\ freq[r] = freq[o]
        /\ Unwrap(freq[r].timestamp_start) < Unwrap(freq[r].timestamp_end)
        /\ flights[Unwrap(freq[r].flight_identifier)] = FlightValues(freq[r])

\* the stored segment of a flight next before s in time_start order
Previous(rows, s) ==
    CHOOSE p \in rows :
        /\ p.time_start < s.time_start
        /\ \A q \in rows : q.time_start < s.time_start
                              => q.time_start <= p.time_start

\* C10: for every stored flight, the stored segments in time_start order
\* tile it: the first starts at the flight's time_start, the last ends at
\* the flight's time_end, each segment starts when and where the one before
\* it ends, and every vertex of the flight's path is an endpoint of a
\* segment.
C10_SegmentsTile ==
    \A key \in DOMAIN flights :
        LET rows == SegmentsOf(flight_segments, key)
            row == flights[key]
        IN  /\ rows # {}
            /\ \A s \in rows : \A q \in rows :
                  s.time_start = q.time_start => s = q
            /\ \A s \in rows :
                  IF \A q \in rows : s.time_start <= q.time_start
                  THEN s.time_start = row.time_start
                  ELSE /\ Previous(rows, s).time_end = s.time_start
                       /\ Previous(rows, s).geom.points[2] = s.geom.points[1]
            /\ \A s \in rows :
                  (\A q \in rows : q.time_start <= s.time_start)
                      => s.time_end = row.time_end
            /\ \A i \in DOMAIN row.geom.points :
                  \E s \in rows : \E j \in DOMAIN s.geom.points :
                      s.geom.points[j] = row.geom.points[i]

\* a flight over three vertices is stored with three segments
C10_Witness ==
    \E key \in DOMAIN flights :
        /\ Len(flights[key].geom.points) = 3
        /\ Cardinality(SegmentsOf(flight_segments, key)) = 3
        /\ flights[key].time_start < flights[key].time_end

\* the sub-edges an edge of length d has to be split into: the least n with
\* d <= n * MAX_FLIGHT_SEGMENT_LENGTH_METERS
LeastSplit(d) ==
    CHOOSE n \in 0..d : /\ d <= n * MAX_FLIGHT_SEGMENT_LENGTH_METERS
                        /\ n = 0 \/ d > (n - 1) * MAX_FLIGHT_SEGMENT_LENGTH_METERS

\* the segments a path has to be split into, edge by edge from edge i on
RECURSIVE SplitCount(_, _)
SplitCount(points, i) ==
    IF i >= Len(points) THEN 0
    ELSE LeastSplit(Distance(points[i], points[i + 1]))
         + SplitCount(points, i + 1)

\* C11: every stored segment has 3D length at most
\* MAX_FLIGHT_SEGMENT_LENGTH_METERS; a flight is stored with as many
\* segments as its edges need, ceil(d / 40) for an edge of length d; and an
\* edge of length at most 40 is stored as exactly one segment, from its start
\* vertex to its end vertex.
C11_SegmentLength ==
    \A key \in DOMAIN flights :
        LET rows == SegmentsOf(flight_segments, key)
            points == flights[key].geom.points
        IN  /\ \A s \in rows :
                  Distance(s.geom.points[1], s.geom.points[2])
                      <= MAX_FLIGHT_SEGMENT_LENGTH_METERS
            /\ Cardinality(rows) = SplitCount(points, 1)
            /\ \A i \in 1..(Len(points) - 1) :
                  Distance(points[i], points[i + 1])
                      <= MAX_FLIGHT_SEGMENT_LENGTH_METERS
                  => Cardinality({s \in rows :
                         s.geom.points = <<points[i], points[i + 1]>>}) = 1

\* a flight with an edge of exactly the maximum length and an edge one
\* beyond it is stored as three segments, beside a flight whose one edge of
\* 100 is stored as three
C11_Witness ==
    \E key \in DOMAIN flights : \E other \in DOMAIN flights :
        /\ Len(flights[key].geom.points) = 3
        /\ Distance(flights[key].geom.points[1], flights[key].geom.points[2])
              = MAX_FLIGHT_SEGMENT_LENGTH_METERS
        /\ Distance(flights[key].geom.points[2], flights[key].geom.points[3])
              = MAX_FLIGHT_SEGMENT_LENGTH_METERS + 1
        /\ Cardinality(SegmentsOf(flight_segments, key)) = 3
        /\ Len(flights[other].geom.points) = 2
        /\ Cardinality(SegmentsOf(flight_segments, other)) = 3

\* the steps at which a call fails for want of a pool, a session or a
\* transaction
AcquisitionSteps == {"DEADPOOL_POSTGIS.get", "pool.get", "transaction"}

\* the request of r passed the checks of the entry and ends before it starts
EndsBeforeStart(r) ==
    /\ freq[r] # NoRequest
    /\ validate_flight_path(freq[r]).ok
    /\ IsSome(freq[r].timestamp_start)
    /\ IsSome(freq[r].timestamp_end)
    /\ IsSome(from_i32(freq[r].aircraft_type))
    /\ Unwrap(freq[r].timestamp_end) < Unwrap(freq[r].timestamp_start)

\* C12: a call of update_flight_path whose timestamp_end is earlier than its
\* timestamp_start returns the Time error, and returns it before the path is
\* segmentized; every stored flights row has time_start <= time_end.
C12_EndBeforeStartIsTime ==
    /\ \A r \in Req :
          (EndsBeforeStart(r) /\ fpc[r] = "done"
              /\ flog[r].failed \notin AcquisitionSteps)
          => (fresult[r] = "Time" /\ flog[r].failed # "segmentize")
    /\ \A key \in DOMAIN flights :
          flights[key].time_start <= flights[key].time_end

\* the request of r passed the checks of the entry, its points are valid, and
\* its path has fewer than two points or no length
DegeneratePath(r) ==
    /\ freq[r] # NoRequest
    /\ validate_flight_path(freq[r]).ok
    /\ IsSome(freq[r].timestamp_start)
    /\ IsSome(freq[r].timestamp_end)
    /\ IsSome(from_i32(freq[r].aircraft_type))
    /\ Unwrap(freq[r].timestamp_start) <= Unwrap(freq[r].timestamp_end)
    /\ LET points == PathPoints(freq[r]) IN
          /\ points.ok
          /\ \/ Len(points.v) < 2
             \/ ArcLength(points.v, Len(points.v)) = 0

\* C13: a call of update_flight_path whose path has fewer than two points, or
\* has total length zero, returns the Segments error and leaves flights and
\* flight_segments as they were.
C13_DegeneratePathIsSegments ==
    [][\A r \in Req :
          (DegeneratePath(r) /\ fpc[r] # "done" /\ fpc'[r] = "done")
          => /\ fresult'[r] = "Segments"
             /\ flights' = flights
             /\ flight_segments' = flight_segments]_vars

\* C14: a call of update_aircraft_id, update_aircraft_position or
\* update_aircraft_velocity with an empty list returns NoAircraft in the step
\* it is made, is never given a session or a transaction, and leaves the
\* aircraft table as it was.
C14_EmptyListIsNoAircraft ==
    [][\A r \in Req :
          (pc[r] \in {"idle", "done"} /\ submitted' # submitted
              /\ tlog'[r].empty)
          => /\ pc'[r] = "done"
             /\ result'[r] = "NoAircraft"
             /\ ~tlog'[r].session
             /\ ~tlog'[r].transaction
             /\ pending'[r] = EmptyTable
             /\ aircraft' = aircraft]_vars

\* both requests called with an empty list, one the id writer and one the
\* velocity writer, over a table that holds a row
C14_Witness ==
    /\ aircraft # EmptyTable
    /\ \E r \in Req : \E o \in Req \ {r} :
          /\ tlog[r].empty /\ stream[r] = "id" /\ result[r] = "NoAircraft"
          /\ tlog[o].empty /\ stream[o] = "velocity"
          /\ result[o] = "NoAircraft"

\* the errors of validation, as opposed to those of the database
ValidationErrors ==
    {"Label", "Location", "Time", "AircraftId", "AircraftType", "Segments"}

\* C15: a call that returns a validation error returns it before the
\* request has been given a session by the pool or a transaction by the
\* session, in the telemetry writers and in update_flight_path alike.
C15_ValidationBeforeSession ==
    /\ \A r \in Req :
          (pc[r] = "done" /\ result[r] \in ValidationErrors)
          => (~tlog[r].session /\ ~tlog[r].transaction)
    /\ \A r \in Req :
          (fpc[r] = "done" /\ fresult[r] \in ValidationErrors)
          => (~flog[r].session /\ ~flog[r].transaction)

\* the steps that obtain the session, and the statement steps
SessionSteps == {"DEADPOOL_POSTGIS.get", "pool.get"}
StatementSteps == {"prepare_cached", "execute", "commit"}

\* C16: in every writer a failure to obtain the session, the pool being
\* unavailable included, is returned as Client, a failure of prepare, execute
\* or commit is returned as DBError, and Client and DBError are returned for
\* nothing else (opening the transaction may count with either).
C16_ErrorMapping ==
    /\ \A r \in Req :
          /\ tlog[r].failed \in SessionSteps => result[r] = "Client"
          /\ tlog[r].failed \in StatementSteps => result[r] = "DBError"
          /\ result[r] = "Client"
                => tlog[r].failed \in SessionSteps \cup {"transaction"}
          /\ result[r] = "DBError"
                => tlog[r].failed \in StatementSteps \cup {"transaction"}
    /\ \A r \in Req :
          /\ flog[r].failed \in SessionSteps => fresult[r] = "Client"
          /\ flog[r].failed \in StatementSteps => fresult[r] = "DBError"
          /\ fresult[r] = "Client"
                => flog[r].failed \in SessionSteps \cup {"transaction"}
          /\ fresult[r] = "DBError"
                => flog[r].failed \in StatementSteps \cup {"transaction"}

(***************************************************************************)
(* Properties of the adapters.                                             *)
(***************************************************************************)
\* the identifier holds a quote, a double quote, a semicolon or a space, is
\* the literal NULL, is empty, or is longer than the pattern allows
HazardousLabel(s) ==
    \/ \E i \in 1..Len(s) : s[i] \in {"'", "\"", ";", " "}
    \/ s = IdentNull
    \/ s = <<>>
    \/ Len(s) > IDENTIFIER_MAX_LEN

\* C17: a position record whose identifier holds a single quote, a double
\* quote, a semicolon or a space, is the literal NULL, is empty or is longer
\* than 255 characters is refused by AircraftPosition::try_from with Label,
\* whatever its other fields, and update_aircraft_position called with it
\* returns Label before it asks the pool for a session.
C17_HazardousLabelRefused ==
    (adapter = "position" /\ HazardousLabel(wire.identifier))
    => (converted = Err("Label") /\ returned = Err("Label"))

\* the literal NULL, with a valid point and a timestamp, was refused
C17_Witness ==
    /\ adapter = "position"
    /\ wire = ReqAircraftPos(IdentNull, Some(GrpcPoint(0, 0, 100)), Some(1))
    /\ converted = Err("Label")
    /\ returned = Err("Label")

\* 1 to 255 characters, each a letter, a digit, a hyphen, an underscore or a
\* dot
PatternString(s) ==
    /\ Len(s) \in 1..255
    /\ Range(s) \subseteq (Upper \cup Lower \cup Digits \cup {"-", "_", "."})

WithinBounds(pt) ==
    /\ pt.latitude >= 0 - 90 /\ pt.latitude <= 90
    /\ pt.longitude >= 0 - 180 /\ pt.longitude <= 180

\* C19: a position record with a valid identifier is refused with Location
\* when its geom is missing, its latitude is outside [-90, 90] or its
\* longitude is outside [-180, 180], whatever its timestamp; a point within
\* the bounds, the bounds -90, 90, -180 and 180 themselves included, is not
\* refused with Location, and with a timestamp it is converted to the point
\* with x = longitude, y = latitude and SRID 4326.
C19_LocationBounds ==
    (adapter = "position" /\ PatternString(wire.identifier)
        /\ wire.identifier # IdentNull)
    => IF ~IsSome(wire.geom) \/ ~WithinBounds(Unwrap(wire.geom))
       THEN converted = Err("Location")
       ELSE /\ converted # Err("Location")
            /\ IsSome(wire.timestamp_network)
               => /\ converted.ok
                  /\ converted.v.geom.x = Unwrap(wire.geom).longitude
                  /\ converted.v.geom.y = Unwrap(wire.geom).latitude
                  /\ converted.v.geom.srid = Some(DEFAULT_SRID)

\* the point at latitude 90 and longitude -180 was accepted
C19_Witness ==
    /\ adapter = "position"
    /\ wire = ReqAircraftPos(IdentA, Some(GrpcPoint(90, 0 - 180, 100)), Some(1))
    /\ converted.ok
    /\ converted.v.geom.y = 90
    /\ converted.v.geom.x = 0 - 180

\* the errors an adapter may return
AdapterErrors == {"Label", "Location", "Time", "AircraftId", "AircraftType"}

\* C20: every adapter returns either an error of the taxonomy or a record
\* the writer can persist, whose identifier has at most 20 characters as the
\* VARCHAR(20) columns require; for validate_flight_path the record is the
\* request it has accepted.
C20_AdapterOutputStorable ==
    /\ adapter \in Streams
       => IF converted.ok
          THEN /\ converted.v.identifier = wire.identifier
               /\ Len(converted.v.identifier) <= IDENTIFIER_COLUMN_LEN
          ELSE converted.e \in AdapterErrors
    /\ adapter = "flight"
       => IF converted.ok
          THEN /\ converted.v = wire
               /\ Len(Unwrap(converted.v.flight_identifier))
                     <= IDENTIFIER_COLUMN_LEN
          ELSE converted.e \in AdapterErrors

\* C21: an aircraft_type code outside the AircraftType enum is always an
\* error and is never stored as a default.  AircraftId::try_from refuses the
\* record, with AircraftId when the identifier is valid, and
\* update_aircraft_id called with it returns the same error before it asks
\* for a session; update_flight_path refuses the request before it asks for
\* the pool, with AircraftType when the flight identifier is valid and both
\* timestamps are present.
C21_UnknownTypeIsError ==
    /\ (adapter = "id" /\ wire.aircraft_type \notin AircraftTypeCodes)
       => /\ ~converted.ok
          /\ returned = converted
          /\ check_identifier(wire.identifier)
                => converted = Err("AircraftId")
    /\ (adapter = "flight" /\ wire.aircraft_type \notin AircraftTypeCodes)
       => /\ ~returned.ok
          /\ (converted.ok /\ IsSome(wire.timestamp_start)
                 /\ IsSome(wire.timestamp_end))
                => returned = Err("AircraftType")

\* an identity record with a valid identifier, a timestamp and the code 3,
\* the first one past the enum, was refused with AircraftId
C21_Witness ==
    /\ adapter = "id"
    /\ wire = ReqAircraftId(IdentA, 3, Some(1))
    /\ converted = Err("AircraftId")
    /\ returned = Err("AircraftId")

(***************************************************************************)
(* Properties of best_path.                                                *)
(***************************************************************************)
\* a node string that is a UUID
ValidNode(s) == s \in {UuidPort, UuidSimple}
\* a call has been made with two UUIDs and with times, where it has any,
\* that are times
WellFormedRoute ==
    /\ route.pc # "idle"
    /\ ValidNode(route.request.node_uuid_start)
    /\ ValidNode(route.request.node_uuid_end)
    /\ \A t \in {route.request.time_start, route.request.time_end} :
          IsSome(t) => Unwrap(t).nanos = 0
\* the start and the end of the window asked for, a missing start being the
\* clock's reading and a missing end the clock's reading and a day
WindowStart ==
    IF IsSome(route.request.time_start)
    THEN Unwrap(route.request.time_start).seconds ELSE route.now[1]
WindowEnd ==
    IF IsSome(route.request.time_end)
    THEN Unwrap(route.request.time_end).seconds ELSE route.now[2] + Day
\* the call was refused by sanitize with this error and has returned it
Refused(e) ==
    /\ route.sanitized = Err(e)
    /\ route.pc = "done"
    /\ route.result = Err(e)

\* C22: a best_path request with two valid UUIDs whose time_end is earlier
\* than its time_start, a missing time_start being now and a missing
\* time_end being now + 24h, is refused with InvalidTimeWindow; every
\* request sanitize accepts has time_start <= time_end.
C22_WindowOrdered ==
    /\ (WellFormedRoute /\ WindowEnd < WindowStart)
       => Refused("InvalidTimeWindow")
    /\ (route.pc # "idle" /\ route.sanitized.ok)
       => route.sanitized.v.time_start <= route.sanitized.v.time_end

\* a request that starts in ten days and names no end was refused with
\* InvalidTimeWindow
C22_Witness ==
    /\ WellFormedRoute
    /\ route.request.time_start = Some(Timestamp(route.called + 10 * Day, 0))
    /\ route.request.time_end = None
    /\ Refused("InvalidTimeWindow")

\* the request ends one second before the call is made and, where it names
\* a start, starts no later than it ends
EndsInThePast ==
    /\ WellFormedRoute
    /\ route.request.time_end = Some(Timestamp(route.called - Second, 0))
    /\ IsSome(route.request.time_start) => WindowStart <= WindowEnd

\* C23 as stated: a best_path request with two valid UUIDs whose time_end is
\* one second in the past is refused with InvalidEndTime, whether its
\* time_start is supplied or left to its default.
C23_PastEndIsInvalidEndTime ==
    EndsInThePast => Refused("InvalidEndTime")

\* C23: a best_path request with two valid UUIDs whose time_end is one second
\* in the past is refused: with InvalidEndTime when its time_start is
\* supplied and is not later than its time_end, with InvalidTimeWindow when
\* its time_start is left to its default.
C23_PastEndRefused ==
    EndsInThePast
    => IF IsSome(route.request.time_start)
       THEN Refused("InvalidEndTime")
       ELSE Refused("InvalidTimeWindow")

\* a request from ten days ago to one second ago was refused with
\* InvalidEndTime
C23_Witness ==
    /\ EndsInThePast
    /\ route.request.time_start = Some(Timestamp(route.called - 10 * Day, 0))
    /\ Refused("InvalidEndTime")

\* what best_path does before and after validation, but for the number of
\* procedures a validated call runs: the start node is looked at first, then
\* the end node, then the times; two UUIDs and no times are accepted; a
\* refused call has no session and has run no query
ValidationFirst ==
    route.pc # "idle"
    => /\ ~ValidNode(route.request.node_uuid_start)
          => Refused("InvalidStartNode")
       /\ (ValidNode(route.request.node_uuid_start)
             /\ ~ValidNode(route.request.node_uuid_end))
          => Refused("InvalidEndNode")
       /\ (WellFormedRoute /\ route.request.time_start = None
             /\ route.request.time_end = None)
          => route.sanitized.ok
       /\ ~route.sanitized.ok
          => (~route.session /\ route.queries = <<>>
              /\ route.pc = "done" /\ route.result = route.sanitized)
\* the one query of the call runs the procedure of its path type
OneProcedure ==
    /\ Len(route.queries) = 1
    /\ route.queries[1].fn_name =
          (IF route.path_type = "PortToPort" THEN "best_path_p2p"
           ELSE "best_path_a2p")

\* C29 as stated: best_path validates before any DB access and in a fixed
\* order (start node, end node, then the times); when validation fails no
\* session is acquired and no procedure is run; when it succeeds exactly
\* one procedure is run, best_path_p2p for PortToPort and best_path_a2p for
\* AircraftToPort.
C29_ValidatedRunsOne ==
    /\ ValidationFirst
    /\ (route.pc = "done" /\ route.sanitized.ok) => OneProcedure

\* C29: best_path validates before any DB access and in a fixed order
\* (start node, end node, then the times); when validation fails no session
\* is acquired and no procedure is run; when it succeeds and the pool gives
\* a session exactly one procedure is run, best_path_p2p for PortToPort and
\* best_path_a2p for AircraftToPort; when the pool gives none the call
\* returns Client and no procedure is run.
C29_ValidatedRunsOneInSession ==
    /\ ValidationFirst
    /\ (route.pc = "done" /\ route.sanitized.ok)
       => IF route.session
          THEN OneProcedure
          ELSE route.result = Err("Client") /\ route.queries = <<>>
    /\ route.pc \in {"idle", "get"} => (~route.session /\ route.queries = <<>>)
    /\ route.pc = "query" => (route.session /\ route.queries = <<>>)

\* an AircraftToPort call with two UUIDs and no times ran best_path_a2p once
\* and returned its rows
C29_Witness ==
    /\ WellFormedRoute
    /\ route.path_type = "AircraftToPort"
    /\ route.request.time_start = None
    /\ route.request.time_end = None
    /\ route.pc = "done"
    /\ route.session
    /\ OneProcedure
    /\ route.queries[1].fn_name = "best_path_a2p"
    /\ route.result.ok

(***************************************************************************)
(* Properties of the queries.                                              *)
(***************************************************************************)
\* the window and the interval of the call of get_flights
AskedWindow == Unwrap(ST_Envelope(WindowLine(reader.request)))
AskedFrom == Unwrap(reader.request.time_start)
AskedTo == Unwrap(reader.request.time_end)
\* the envelope of the flight meets the window, and its times overlap the
\* interval
WantedFlight(k) ==
    /\ IsSome(flights[k].isa)
    /\ Unwrap(flights[k].isa).min_x <= AskedWindow.max_x
    /\ Unwrap(flights[k].isa).max_x >= AskedWindow.min_x
    /\ Unwrap(flights[k].isa).min_y <= AskedWindow.max_y
    /\ Unwrap(flights[k].isa).max_y >= AskedWindow.min_y
    /\ flights[k].time_start <= AskedTo
    /\ flights[k].time_end >= AskedFrom
\* the position of the aircraft is in the window, and its
\* last_position_update in the interval
WantedAircraft(a) ==
    /\ IsSome(aircraft[a].geom)
    /\ Unwrap(aircraft[a].geom).x >= AskedWindow.min_x
    /\ Unwrap(aircraft[a].geom).x <= AskedWindow.max_x
    /\ Unwrap(aircraft[a].geom).y >= AskedWindow.min_y
    /\ Unwrap(aircraft[a].geom).y <= AskedWindow.max_y
    /\ IsSome(aircraft[a].last_position_update)
    /\ Unwrap(aircraft[a].last_position_update) >= AskedFrom
    /\ Unwrap(aircraft[a].last_position_update) <= AskedTo
\* the entry is about this flight, by its session or by its aircraft, or
\* about this aircraft
EntryOfFlight(e, k) ==
    e.session_id = Some(k) \/ e.aircraft_id = flights[k].aircraft_identifier
EntryOfAircraft(e, a) == e.aircraft_id = Some(a)
\* get_flights has returned a list, and none of its telemetry queries failed
Answered ==
    /\ reader.pc = "done"
    /\ reader.returned.ok
    /\ reader.skipped = 0

\* C24: get_flights returns an entry for every flight whose envelope meets
\* the window and whose times overlap the interval, and for every aircraft
\* whose position is in the window and whose last_position_update is in the
\* interval, and no entry that is of neither kind; whether or not the flight
\* has an aircraft row, and whether or not the aircraft has sent a velocity.
C24_GetFlightsComplete ==
    Answered
    => LET entries == Range(reader.returned.v) IN
       /\ \A k \in DOMAIN flights :
             WantedFlight(k) => \E e \in entries : EntryOfFlight(e, k)
       /\ \A a \in DOMAIN aircraft :
             WantedAircraft(a) => \E e \in entries : EntryOfAircraft(e, a)
       /\ \A e \in entries :
             \/ \E k \in DOMAIN flights :
                   EntryOfFlight(e, k) /\ WantedFlight(k)
             \/ \E a \in DOMAIN aircraft :
                   EntryOfAircraft(e, a) /\ WantedAircraft(a)

\* the statement has been run and has given its rows
Probed == probe.pc = "done" /\ probe.returned.ok
\* the times of the flight overlap the time window of the statement
FlightOverlaps(k) ==
    /\ flights[k].time_start <= probe.parameters.time_end
    /\ flights[k].time_end >= probe.parameters.time_start
\* the segment is within the radius of the geometry
SegmentNear(seg) ==
    ST_3DDWithin(seg.geom, probe.parameters.geom, probe.parameters.radius)
\* the times of the segment overlap the time window of the statement
SegmentOverlaps(seg) ==
    /\ seg.time_start <= probe.parameters.time_end
    /\ seg.time_end >= probe.parameters.time_start

\* C25 as stated: the flight intersection statement returns a flight if and
\* only if the times of the flight overlap the time window and one of its
\* segments is within the radius of the geometry; it returns at most one
\* row.
C25_IntersectionByFlightTimes ==
    Probed
    => LET rows == probe.returned.v
           hit(k) == /\ FlightOverlaps(k)
                     /\ \E seg \in SegmentsOf(flight_segments, k) :
                           SegmentNear(seg)
       IN  /\ Len(rows) <= 1
           /\ rows # <<>> <=> \E k \in DOMAIN flights : hit(k)
           /\ \A i \in DOMAIN rows : hit(rows[i].flight_identifier)

\* C25: the flight intersection statement returns at most one row; it
\* returns a row if and only if some flight that is not simulated has a
\* segment whose own times overlap the time window and which is within the
\* radius of the geometry, and the row it returns is such a flight.
C25_IntersectionBySegment ==
    Probed
    => LET rows == probe.returned.v
           hit(k) == /\ ~flights[k].simulated
                     /\ \E seg \in SegmentsOf(flight_segments, k) :
                           SegmentNear(seg) /\ SegmentOverlaps(seg)
       IN  /\ Len(rows) <= 1
           /\ rows # <<>> <=> \E k \in DOMAIN flights : hit(k)
           /\ \A i \in DOMAIN rows :
                 /\ rows[i].flight_identifier \in DOMAIN flights
                 /\ hit(rows[i].flight_identifier)
                 /\ rows[i].geom = flights[rows[i].flight_identifier].geom

\* with two flights that both have a segment near the point in the first
\* ten seconds, the statement returned the second one, and only it
C25_Witness ==
    /\ Probed
    /\ DOMAIN flights = {FlightF1, FlightF2}
    /\ ~flights[FlightF1].simulated
    /\ probe.parameters.time_start = 0
    /\ probe.parameters.time_end = 10
    /\ probe.parameters.radius = 10
    /\ \A k \in DOMAIN flights :
          \E seg \in SegmentsOf(flight_segments, k) :
              SegmentNear(seg) /\ SegmentOverlaps(seg)
    /\ Len(probe.returned.v) = 1
    /\ probe.returned.v[1].flight_identifier = FlightF2

\* the steps of get_flights up to its first query, that query included
FirstQuerySteps ==
    {"time_start", "time_end", "DEADPOOL_POSTGIS.get", "pool.get",
     "prepare_cached", "query"}
\* what the list returned is made of: no more entries than flights matched,
\* each with a state and one position, each the entry of a flight matched
EntriesOfMatched(entries) ==
    /\ Len(entries) <= Len(reader.flights)
    /\ \A i \in DOMAIN entries :
          /\ IsSome(entries[i].state)
          /\ Len(entries[i].positions) = 1
          /\ \E j \in DOMAIN reader.flights :
                /\ entries[i].aircraft_id = reader.flights[j].aircraft_id
                /\ entries[i].aircraft_type = reader.flights[j].aircraft_type
                /\ entries[i].simulated = reader.flights[j].simulated

\* C30 as stated: once the first query of get_flights has succeeded the call
\* returns Ok, with no more entries than flights matched, each entry that of
\* a flight matched, with its state set and one position.
C30_OkAfterFirstQuery ==
    (reader.pc = "done" /\ reader.failed \notin FirstQuerySteps)
    => /\ reader.returned.ok
       /\ EntriesOfMatched(reader.returned.v)

\* C30: once the first query of get_flights has succeeded and the telemetry
\* statement has been prepared the call returns Ok: a telemetry query that
\* fails and a row that does not decode leave that flight out, so that the
\* list has no more entries than flights looked up, each entry that of a
\* flight matched, with its state set and one position; when the telemetry
\* statement cannot be prepared the call returns DBError.
C30_OkAfterPrepare ==
    /\ (reader.pc = "done" /\ reader.failed \notin FirstQuerySteps)
       => \/ /\ reader.failed = "none"
             /\ reader.returned.ok
             /\ reader.returned.v = reader.result
             /\ reader.idx = Len(reader.flights) + 1
          \/ /\ reader.failed = "prepare_cached telemetry"
             /\ reader.returned = Err("DBError")
    /\ reader.pc \in {"loop", "done"}
       => /\ EntriesOfMatched(reader.result)
          /\ Len(reader.result) + reader.skipped < reader.idx \/ reader.idx = 0

\* of two aircraft matched, one was left out because its telemetry query
\* failed, and the call returned the other
C30_Witness ==
    /\ reader.pc = "done"
    /\ reader.returned.ok
    /\ Len(reader.flights) = 2
    /\ reader.skipped = 1
    /\ Len(reader.returned.v) = 1

\* the five objects of the schema that the tables and indexes are
SchemaTables ==
    {AircraftTable, FlightsTable, SegmentsTable, FlightsIndex, SegmentsIndex}

\* C26: init is idempotent and all or nothing: on a database that has the
\* schema an init run changes nothing, and after an init run, whether it
\* succeeded or failed, either the three tables and the two indexes all
\* exist or none of the objects that the run had to create exists.
C26_InitAllOrNothing ==
    [][/\ schema = SchemaObjects => schema' = schema
       /\ setup'.pc = "done"
          => \/ SchemaTables \subseteq schema'
             \/ schema' \cap (SchemaObjects \ setup'.found) = {}]_vars

\* the update timestamp that a stream keeps in a row
StreamStamp(row, s) ==
    IF s = "id" THEN row.last_identifier_update
    ELSE IF s = "position" THEN row.last_position_update
    ELSE row.last_velocity_update

\* C27: in every reachable state a row exists for an identifier if and only
\* if an identity, position or velocity record for it has been committed, and
\* each of last_identifier_update, last_position_update and
\* last_velocity_update is NULL exactly when its stream has never committed a
\* record for the identifier.  What has been committed stays committed, so
\* that the row of an identifier, once there, is in every later state: no
\* step of a writer removes a row.
C27_RowIffCommitted ==
    /\ DOMAIN aircraft \subseteq GoodIdentifiers
    /\ \A k \in GoodIdentifiers :
          /\ k \in DOMAIN aircraft
             <=> \E s \in Streams : IsSome(lastCommitted[k][s])
          /\ k \in DOMAIN aircraft
             => \A s \in Streams :
                   StreamStamp(aircraft[k], s) = None
                   <=> lastCommitted[k][s] = None

\* one aircraft has sent nothing but a velocity, another an identity and a
\* position but no velocity
C27_Witness ==
    \E k \in DOMAIN aircraft : \E o \in DOMAIN aircraft \ {k} :
        /\ IsSome(aircraft[k].last_velocity_update)
        /\ aircraft[k].last_identifier_update = None
        /\ aircraft[k].last_position_update = None
        /\ IsSome(aircraft[o].last_identifier_update)
        /\ IsSome(aircraft[o].last_position_update)
        /\ aircraft[o].last_velocity_update = None

\* what is wrong first with a position record, in the order identifier,
\* location, timestamp
FirstFailure(craft) ==
    IF ~(PatternString(craft.identifier) /\ craft.identifier # IdentNull)
    THEN "Label"
    ELSE IF ~IsSome(craft.geom) THEN "Location"
    ELSE IF ~WithinBounds(Unwrap(craft.geom)) THEN "Location"
    ELSE IF ~IsSome(craft.timestamp_network) THEN "Time"
    ELSE "none"

\* C28: AircraftPosition::try_from checks in a fixed order and returns the
\* first failure: the identifier (Label), then the presence and the range of
\* geom (Location), then the presence of timestamp_network (Time); and
\* update_aircraft_position called with a list returns the error of the first
\* invalid record of the list.
C28_FirstFailureReported ==
    /\ adapter = "position"
       => IF FirstFailure(wire) = "none"
          THEN converted.ok /\ returned.ok
          ELSE /\ converted = Err(FirstFailure(wire))
               /\ returned = Err(FirstFailure(wire))
    /\ adapter = "positions"
       => LET invalid == {i \in DOMAIN wire.aircraft :
                            FirstFailure(wire.aircraft[i]) # "none"}
          IN  IF invalid = {}
              THEN converted.ok /\ returned.ok
              ELSE LET first == CHOOSE i \in invalid :
                                   \A j \in invalid : i <= j
                   IN  /\ converted = Err(FirstFailure(wire.aircraft[first]))
                       /\ returned = converted

\* a list whose second record has no geom and whose third record has a bad
\* identifier was refused with Location
C28_Witness ==
    /\ adapter = "positions"
    /\ Len(wire.aircraft) = 3
    /\ FirstFailure(wire.aircraft[1]) = "none"
    /\ FirstFailure(wire.aircraft[2]) = "Location"
    /\ FirstFailure(wire.aircraft[3]) = "Label"
    /\ returned = Err("Location")

====
